---- MODULE Spec2Model ----
(***************************************************************************)
(* The real-time audio streaming engine of the LLB backend:                *)
(*   src/backend/app/services/audio_streaming_service.py  (service)        *)
(*   src/backend/app/api/v1/endpoints/audio_streaming.py  (gateway)        *)
(*                                                                         *)
(* The engine is a single asyncio event loop.  A task runs without         *)
(* interruption between two suspension points, so every action below is    *)
(* the code a task executes from one suspension point to the next.  The    *)
(* suspension points are: websocket.accept / receive_text / send_text /    *)
(* close, asyncio.wait_for(queue.get()), run_in_executor (the collaborator *)
(* calls) and asyncio.sleep.  Acquiring AudioBuffer._lock and putting on   *)
(* the unbounded asyncio.Queue never suspend: the lock is never held       *)
(* across a suspension point.                                              *)
(***************************************************************************)
EXTENDS Integers, Sequences, FiniteSets, TLC

\* ------------------------------------------------------------- bounds
MaxSessions == 2      \* session IDs ever created
MaxConns    == 2      \* websocket connections ever accepted
MaxFrameConns == 1    \* of them, those whose clients send frames of every kind
MaxChunks   == 3      \* audio chunks ever accepted
MaxRequests == 1      \* speech requests ever accepted
MaxSent     == 3      \* no further frame is read once this many frames were sent, over all connections
MaxTextLen  == 2      \* length of the text strings a client sends
MaxTime     == 2      \* clock ticks
MaxDeletes  == 2      \* DELETE /sessions/{id} requests
MaxChunkSize == 2     \* payload bytes of a chunk handed to process_audio_stream directly
MaxEntries == 52      \* entries added to one history by direct calls
MaxCallers == 3       \* requests that ask for the service while it starts

\* -------------------------------------------------- program constants
\* AudioBuffer.max_size (10 MiB in the source, counted here in payload
\* bytes of the scaled-down payloads the model's clients send)
max_size == 3
\* ConversationSession.is_expired(timeout=3600), in clock ticks
SessionTimeout == 1
\* AudioStreamingService.initialize(num_workers=2)
num_workers == 2
\* add_conversation_entry keeps the last 50 entries
HistoryCap == 50

SessionIds == 1..MaxSessions
Conns      == 1..MaxConns
ChunkIds   == 1..MaxChunks
RequestIds == 1..MaxRequests
Workers    == 1..num_workers
Deleters   == 1..MaxDeletes
Callers    == 1..MaxCallers
None       == 0

VARIABLES
    \* AudioStreamingService
    active_sessions,       \* keys of the registry dict
    tts_initialized,
    \* ConversationSession objects (they outlive their registry entry)
    is_active, websocket, last_activity, audio_buffer,
    processing_queue, response_queue, conversation_history,
    \* AudioChunk.result, per chunk
    chunk_result,
    \* uuid4 / request identity: fresh tokens, never reused
    nextSession, nextChunk, nextRequest,
    \* one gateway task (websocket_audio_stream) per connection
    gw, gwSession, sent, wsClosed, closeCalls,
    \* worker tasks
    tworker, sworker,
    \* expiry task, DELETE handlers, clock
    expiry, deleter, now,
    \* the module global streaming_service, AudioStreamingService.is_initialized,
    \* the number of initialize() calls, and the requests inside
    \* get_streaming_service
    streaming_service, is_initialized, initializeCalls, caller,
    \* the shutdown handler inside AudioStreamingService.cleanup
    cleanup

startVars == <<streaming_service, is_initialized, initializeCalls, caller>>
svcVars   == <<active_sessions, tts_initialized, startVars>>
sessVars  == <<is_active, websocket, last_activity, audio_buffer,
               processing_queue, response_queue, conversation_history>>
idVars    == <<nextSession, nextChunk, nextRequest>>
connVars  == <<gw, gwSession, sent, wsClosed, closeCalls>>
taskVars  == <<tworker, sworker, expiry, deleter, cleanup>>
vars == <<svcVars, sessVars, chunk_result, idVars, connVars, taskVars, now>>

\* ------------------------------------------------------------ helpers
Range(f) == {f[i] : i \in DOMAIN f}

RECURSIVE SumSizes(_)
SumSizes(chunks) ==
    IF chunks = <<>> THEN 0 ELSE Head(chunks).size + SumSizes(Tail(chunks))

\* dict order is insertion order; session IDs are issued in increasing order
RECURSIVE InOrder(_)
InOrder(S) ==
    IF S = {} THEN <<>>
    ELSE LET m == CHOOSE x \in S : \A y \in S : x <= y
         IN <<m>> \o InOrder(S \ {m})

\* --------------------------------------------------------- AudioBuffer
EmptyBuffer == [chunks |-> <<>>, total_size |-> 0]

\* AudioChunk.__init__: processed = False
AudioChunk(id, size) == [chunk_id |-> id, size |-> size, processed |-> FALSE]

\* chunks_to_remove of _cleanup_old_chunks: one scan in buffer order, a chunk
\* is taken when it is processed and removed_size < needed_space so far
RECURSIVE ChunksToRemove(_, _, _)
ChunksToRemove(chunks, removed_size, needed_space) ==
    IF chunks = <<>> THEN {}
    ELSE LET c == Head(chunks) IN
         IF c.processed /\ removed_size < needed_space
         THEN {c.chunk_id}
              \cup ChunksToRemove(Tail(chunks), removed_size + c.size, needed_space)
         ELSE ChunksToRemove(Tail(chunks), removed_size, needed_space)

\* a cleanup that forgets to look at the processed flag
RECURSIVE ChunksToRemoveAny(_, _, _)
ChunksToRemoveAny(chunks, removed_size, needed_space) ==
    IF chunks = <<>> THEN {}
    ELSE LET c == Head(chunks) IN
         IF removed_size < needed_space
         THEN {c.chunk_id}
              \cup ChunksToRemoveAny(Tail(chunks), removed_size + c.size, needed_space)
         ELSE ChunksToRemoveAny(Tail(chunks), removed_size, needed_space)

cleanup_any_chunks(buf, needed_space) ==
    LET rm   == ChunksToRemoveAny(buf.chunks, 0, needed_space)
        gone == SelectSeq(buf.chunks, LAMBDA c : c.chunk_id \in rm)
    IN  [chunks     |-> SelectSeq(buf.chunks, LAMBDA c : c.chunk_id \notin rm),
         total_size |-> buf.total_size - SumSizes(gone)]

\* a cleanup that removes the chunks and leaves total_size as it was
cleanup_forgets_total(buf, needed_space) ==
    LET rm == ChunksToRemove(buf.chunks, 0, needed_space)
    IN  [chunks     |-> SelectSeq(buf.chunks, LAMBDA c : c.chunk_id \notin rm),
         total_size |-> buf.total_size]

\* AudioBuffer._cleanup_old_chunks
cleanup_old_chunks(buf, needed_space) ==
    LET rm   == ChunksToRemove(buf.chunks, 0, needed_space)
        gone == SelectSeq(buf.chunks, LAMBDA c : c.chunk_id \in rm)
    IN  [chunks     |-> SelectSeq(buf.chunks, LAMBDA c : c.chunk_id \notin rm),
         total_size |-> buf.total_size - SumSizes(gone)]

\* AudioBuffer.add_chunk: the chunk is appended whatever the cleanup freed
add_chunk(buf, chunk) ==
    LET b == IF buf.total_size + chunk.size > max_size
             THEN cleanup_old_chunks(buf, chunk.size)
             ELSE buf
    IN  [chunks     |-> Append(b.chunks, chunk),
         total_size |-> b.total_size + chunk.size]

\* a mark_processed that flags the chunk and every chunk before it
mark_processed_upto(buf, chunk_id) ==
    LET at == {i \in DOMAIN buf.chunks : buf.chunks[i].chunk_id = chunk_id} IN
    [buf EXCEPT !.chunks =
        [i \in DOMAIN buf.chunks |->
            IF \E k \in at : i <= k
            THEN [buf.chunks[i] EXCEPT !.processed = TRUE]
            ELSE buf.chunks[i]]]

\* a mark_processed without the lock, writing back a list it read before a
\* later chunk was appended
mark_processed_stale(buf, chunk_id) ==
    LET at == {i \in DOMAIN buf.chunks : buf.chunks[i].chunk_id = chunk_id} IN
    IF at = {} THEN buf
    ELSE LET k == CHOOSE i \in at : \A j \in at : i <= j IN
         [buf EXCEPT !.chunks =
             [i \in 1..k |->
                 IF i = k THEN [buf.chunks[i] EXCEPT !.processed = TRUE]
                 ELSE buf.chunks[i]]]

\* AudioBuffer.mark_processed: first chunk with that id, if any
mark_processed(buf, chunk_id) ==
    [buf EXCEPT !.chunks =
        [i \in DOMAIN buf.chunks |->
            IF buf.chunks[i].chunk_id = chunk_id
            THEN [buf.chunks[i] EXCEPT !.processed = TRUE]
            ELSE buf.chunks[i]]]

\* AudioBuffer.get_unprocessed_chunks
get_unprocessed_chunks(buf) == SelectSeq(buf.chunks, LAMBDA c : ~c.processed)

\* ------------------------------------------------- ConversationSession
\* ConversationSession.is_expired
is_expired(s) == now - last_activity[s] > SessionTimeout

\* a full history that makes room by dropping the entry added last
add_conversation_entry_drops_recent(history, entry) ==
    IF Len(history) >= HistoryCap
    THEN Append(SubSeq(history, 1, HistoryCap - 1), entry)
    ELSE Append(history, entry)

\* ConversationSession.add_conversation_entry
add_conversation_entry(history, entry) ==
    LET h == Append(history, entry)
    IN  IF Len(h) > HistoryCap THEN SubSeq(h, Len(h) - HistoryCap + 1, Len(h)) ELSE h

\* ----------------------------------------------------------------- Init
IdleWorker == [pc |-> "sleep", todo |-> <<>>, session |-> None, item |-> None,
               result |-> "none"]

\* the service after get_streaming_service() has run initialize(): the Whisper
\* model is loaded, no session exists, the worker and expiry tasks are started
\* and sleeping.  Init is a deployment with the TTS libraries installed,
\* InitNoTTS one without them (TTS_AVAILABLE is False: no TTS worker starts).
InitService(tts) ==
    /\ active_sessions = {}
    /\ tts_initialized = tts
    /\ is_active = [s \in SessionIds |-> FALSE]
    /\ websocket = [s \in SessionIds |-> None]
    /\ last_activity = [s \in SessionIds |-> 0]
    /\ audio_buffer = [s \in SessionIds |-> EmptyBuffer]
    /\ processing_queue = [s \in SessionIds |-> <<>>]
    /\ response_queue = [s \in SessionIds |-> <<>>]
    /\ conversation_history = [s \in SessionIds |-> <<>>]
    /\ chunk_result = [c \in ChunkIds |-> "unset"]
    /\ nextSession = 1
    /\ nextChunk = 1
    /\ nextRequest = 1
    /\ gw = [c \in Conns |-> "Idle"]
    /\ gwSession = [c \in Conns |-> None]
    /\ sent = [c \in Conns |-> <<>>]
    /\ wsClosed = [c \in Conns |-> FALSE]
    /\ closeCalls = [c \in Conns |-> 0]
    /\ tworker = [w \in Workers |-> IdleWorker]
    /\ sworker = [w \in Workers |-> IdleWorker]
    /\ expiry = [pc |-> "sleep", expired_sessions |-> <<>>, idx |-> 1]
    /\ deleter = [d \in Deleters |-> [pc |-> "idle", session_id |-> None]]
    /\ cleanup = [pc |-> "idle", sessions |-> <<>>, idx |-> 1]
    /\ now = 0

IdleCaller == [pc |-> "idle", initialized |-> FALSE]

InitWith(tts) ==
    /\ InitService(tts)
    /\ streaming_service = "service"
    /\ is_initialized = TRUE
    /\ initializeCalls = 1
    /\ caller = [k \in Callers |-> IdleCaller]

\* the process before its first request: the global is None
InitStartup ==
    /\ InitService(FALSE)
    /\ streaming_service = "None"
    /\ is_initialized = FALSE
    /\ initializeCalls = 0
    /\ caller = [k \in Callers |-> IdleCaller]

Init == InitWith(TRUE)
InitNoTTS == InitWith(FALSE)
\* initialize() on a host with or without the TTS libraries (TTS_AVAILABLE)
InitAnyTTS == \E tts \in BOOLEAN : InitWith(tts)

\* -------------------------------------------------------- the service
\* a create_session that issues the first ID again once it has been issued
CreateSessionReusesId ==
    /\ nextSession <= MaxSessions
    /\ LET s == 1 IN
       /\ active_sessions' = active_sessions \cup {s}
       /\ is_active' = [is_active EXCEPT ![s] = TRUE]
       /\ websocket' = [websocket EXCEPT ![s] = None]
       /\ last_activity' = [last_activity EXCEPT ![s] = now]
       /\ audio_buffer' = [audio_buffer EXCEPT ![s] = EmptyBuffer]
       /\ processing_queue' = [processing_queue EXCEPT ![s] = <<>>]
       /\ response_queue' = [response_queue EXCEPT ![s] = <<>>]
       /\ conversation_history' = [conversation_history EXCEPT ![s] = <<>>]
       /\ nextSession' = nextSession + 1
    /\ UNCHANGED <<tts_initialized, startVars, chunk_result, nextChunk, nextRequest,
                   connVars, taskVars, now>>

\* get_streaming_service up to its first suspension: the global is assigned
\* before initialize() is awaited; a request that finds the global set
\* returns it at once
GetServiceStart(k) ==
    /\ caller[k].pc = "idle"
    /\ IF streaming_service = "None"
       THEN /\ streaming_service' = "service"
            /\ initializeCalls' = initializeCalls + 1
            /\ caller' = [caller EXCEPT ![k].pc = "initializing"]
       ELSE /\ caller' = [caller EXCEPT ![k] =
                             [pc |-> "returned", initialized |-> is_initialized]]
            /\ UNCHANGED <<streaming_service, initializeCalls>>
    /\ UNCHANGED <<active_sessions, tts_initialized, is_initialized, sessVars,
                   chunk_result, idVars, connVars, taskVars, now>>

\* initialize() ends: it has loaded the engines, started the tasks and set
\* is_initialized (ok), or it re-raises what a loader raised
InitializeDone(k, ok) ==
    /\ caller[k].pc = "initializing"
    /\ IF ok
       THEN /\ is_initialized' = TRUE
            /\ tts_initialized' = TRUE
            /\ caller' = [caller EXCEPT ![k] = [pc |-> "returned", initialized |-> TRUE]]
       ELSE /\ caller' = [caller EXCEPT ![k].pc = "raised"]
            /\ UNCHANGED <<is_initialized, tts_initialized>>
    /\ UNCHANGED <<active_sessions, streaming_service, initializeCalls, sessVars,
                   chunk_result, idVars, connVars, taskVars, now>>

\* AudioStreamingService.create_session (ConversationSession.__init__)
CreateSession ==
    /\ nextSession <= MaxSessions
    /\ LET s == nextSession IN
       /\ active_sessions' = active_sessions \cup {s}
       /\ is_active' = [is_active EXCEPT ![s] = TRUE]
       /\ websocket' = [websocket EXCEPT ![s] = None]
       /\ last_activity' = [last_activity EXCEPT ![s] = now]
       /\ audio_buffer' = [audio_buffer EXCEPT ![s] = EmptyBuffer]
       /\ processing_queue' = [processing_queue EXCEPT ![s] = <<>>]
       /\ response_queue' = [response_queue EXCEPT ![s] = <<>>]
       /\ conversation_history' = [conversation_history EXCEPT ![s] = <<>>]
       /\ nextSession' = nextSession + 1
    /\ UNCHANGED <<tts_initialized, startVars, chunk_result, nextChunk, nextRequest,
                   connVars, taskVars, now>>

\* create_streaming_session: the endpoint body runs once its request has the
\* service
CreateSessionRequest(k) ==
    /\ caller[k].pc = "returned"
    /\ CreateSession

\* an add_audio_chunk that puts the chunk on the inbound queue twice
AddAudioChunkTwice(s, size) ==
    /\ audio_buffer' = [audio_buffer EXCEPT ![s] = add_chunk(@, AudioChunk(nextChunk, size))]
    /\ processing_queue' = [processing_queue EXCEPT ![s] = @ \o <<nextChunk, nextChunk>>]
    /\ last_activity' = [last_activity EXCEPT ![s] = now]
    /\ nextChunk' = nextChunk + 1

\* ConversationSession.add_audio_chunk, as called by process_audio_stream on a
\* registered session: buffer, then inbound queue, then the activity clock
AddAudioChunkEffect(s, size) ==
    /\ audio_buffer' = [audio_buffer EXCEPT ![s] = add_chunk(@, AudioChunk(nextChunk, size))]
    /\ processing_queue' = [processing_queue EXCEPT ![s] = Append(@, nextChunk)]
    /\ last_activity' = [last_activity EXCEPT ![s] = now]
    /\ nextChunk' = nextChunk + 1

\* AudioStreamingService.process_audio_stream called directly
ProcessAudioStream(s, size) ==
    /\ s \in active_sessions
    /\ nextChunk <= MaxChunks
    /\ AddAudioChunkEffect(s, size)
    /\ UNCHANGED <<svcVars, is_active, websocket, response_queue,
                   conversation_history, chunk_result, nextSession, nextRequest,
                   connVars, taskVars, now>>

\* ConversationSession.add_conversation_entry called directly; the entries
\* of a session are numbered in the order in which they are added
AddConversationEntry(s) ==
    /\ s \in active_sessions
    /\ LET h == conversation_history[s]
           k == IF h = <<>> THEN 1 ELSE h[Len(h)].ref + 1
       IN  /\ k <= MaxEntries
           /\ conversation_history' =
                  [conversation_history EXCEPT ![s] =
                      add_conversation_entry(@, [type |-> "transcription", ref |-> k,
                                                 size |-> 0])]
    /\ UNCHANGED <<svcVars, is_active, websocket, last_activity, audio_buffer,
                   processing_queue, response_queue, chunk_result, idVars,
                   connVars, taskVars, now>>

\* AudioBuffer.mark_processed called directly
MarkProcessed(s, chunk_id) ==
    /\ s \in active_sessions
    /\ audio_buffer' = [audio_buffer EXCEPT ![s] = mark_processed(@, chunk_id)]
    /\ audio_buffer'[s] # audio_buffer[s]
    /\ UNCHANGED <<svcVars, is_active, websocket, last_activity, processing_queue,
                   response_queue, conversation_history, chunk_result, idVars,
                   connVars, taskVars, now>>

\* ------------------------------------------------------ wire formats
\* An audio_data string, by character class: "h" a hex digit, "s" ASCII
\* whitespace, "x" anything else.  A text string: "s" whitespace, "c" other.
\* Strings(alphabet, n): the strings over alphabet of length at most n.
RECURSIVE Strings(_, _)
Strings(alphabet, n) ==
    IF n = 0 THEN {<<>>}
    ELSE LET shorter == Strings(alphabet, n - 1)
         IN  shorter \cup {Append(w, a) : w \in shorter, a \in alphabet}

\* the audio_data strings the model's clients send: empty, whitespace only,
\* not hex, an odd number of digits, a byte split by whitespace, and one or
\* two well-formed bytes with and without whitespace around them
HexStrings ==
    {<<>>, <<"s">>, <<"x">>, <<"h">>, <<"h", "s", "h">>, <<"h", "h", "h">>,
     <<"h", "h">>, <<"s", "h", "h">>, <<"h", "h", "h", "h">>,
     <<"h", "h", "s", "h", "h">>}
TextStrings == Strings({"s", "c"}, MaxTextLen)
Commands    == {"ping", "stats", "reset", "", "bogus"}

\* bytes.fromhex: whitespace is skipped between bytes, a byte is two adjacent
\* hex digits; anything else raises ValueError (-1).  The value is len(bytes).
RECURSIVE fromhex(_)
fromhex(h) ==
    IF h = <<>> THEN 0
    ELSE IF Head(h) = "s" THEN fromhex(Tail(h))
    ELSE IF Len(h) >= 2 /\ h[1] = "h" /\ h[2] = "h"
         THEN LET rest == fromhex(SubSeq(h, 3, Len(h)))
              IN  IF rest = -1 THEN -1 ELSE rest + 1
    ELSE -1

\* str.strip
RECURSIVE lstrip(_)
lstrip(t) == IF t # <<>> /\ Head(t) = "s" THEN lstrip(Tail(t)) ELSE t
RECURSIVE rstrip(_)
rstrip(t) ==
    IF t # <<>> /\ t[Len(t)] = "s" THEN rstrip(SubSeq(t, 1, Len(t) - 1)) ELSE t
strip(t) == rstrip(lstrip(t))

\* an outbound frame; ref is the chunk or request it is about
Frame(type, ref, size) ==
    [type |-> type, ref |-> ref, size |-> size, message |-> "", echo |-> <<>>]
\* an error frame; message is the text the code puts in it
ErrorFrame(message) ==
    [type |-> "error", ref |-> None, size |-> 0, message |-> message, echo |-> <<>>]

\* A text put into a frame, by character class: "m" one of the characters
\* & < > " ' that html.escape rewrites, "c" any other character, "e" the entity
\* html.escape writes for an "m".
EchoTexts == {<<"c">>, <<"m", "c", "m">>}

\* sanitize_html: html.escape(text, quote=True)
sanitize_html(text) == [i \in DOMAIN text |-> IF text[i] = "m" THEN "e" ELSE text[i]]

\* str(command) of the control commands
CommandText(command) ==
    CASE command = ""        -> <<>>
      [] command = "<bogus>" -> <<"m", "c", "m">>
      [] OTHER               -> <<"c">>

\* str(e) of the exceptions the receive loop catches: a JSONDecodeError text
\* is plain, the AttributeError of a message that is not an object quotes the
\* type and attribute names ('list' object has no attribute 'get')
ExceptionText(kind) == IF kind = "badjson" THEN <<"c">> ELSE <<"m", "c", "m">>

\* an error frame whose message ends with a text
EchoFrame(message, text) == [ErrorFrame(message) EXCEPT !.echo = text]

\* WebSocket.send_text succeeds while neither side has closed the connection
CanSend(c) == gw[c] = "Open" /\ ~wsClosed[c]
send_text(c, frame) == [sent EXCEPT ![c] = Append(@, frame)]

\* -------------------------------------------------------- the gateway
\* websocket_audio_stream: await websocket.accept().  Connections are
\* numbered in the order in which they are accepted.
GwAccept(c, s) ==
    /\ gw[c] = "Idle"
    /\ \A b \in Conns : b < c => gw[b] # "Idle"
    /\ gw' = [gw EXCEPT ![c] = "Connecting"]
    /\ gwSession' = [gwSession EXCEPT ![c] = s]
    /\ UNCHANGED <<svcVars, sessVars, chunk_result, idVars, sent, wsClosed,
                   closeCalls, taskVars, now>>

\* AudioStreamingService.disconnect_websocket
disconnect_websocket(s) ==
    IF s \in active_sessions THEN [websocket EXCEPT ![s] = None] ELSE websocket

\* an endpoint that greets the client whether or not the attach succeeded
GwAttachOpensUnbound(c) ==
    /\ gw[c] = "Connecting"
    /\ LET s == gwSession[c] IN
       IF s \notin active_sessions
       THEN UNCHANGED <<websocket, last_activity>>
       ELSE /\ websocket' = [websocket EXCEPT ![s] = c]
            /\ last_activity' = [last_activity EXCEPT ![s] = now]
    /\ gw' = [gw EXCEPT ![c] = "Open"]
    /\ sent' = [sent EXCEPT ![c] = Append(@, Frame("connection_established", None, 0))]
    /\ UNCHANGED <<svcVars, is_active, audio_buffer, processing_queue, response_queue,
                   conversation_history, chunk_result, idVars, gwSession, wsClosed,
                   closeCalls, taskVars, now>>

\* an attach that binds the connection but leaves last_activity alone
GwAttachKeepsActivity(c) ==
    /\ gw[c] = "Connecting"
    /\ LET s == gwSession[c] IN
       IF s \notin active_sessions
       THEN /\ gw' = [gw EXCEPT ![c] = "Closed"]
            /\ UNCHANGED <<websocket, sent>>
       ELSE /\ websocket' = [websocket EXCEPT ![s] = c]
            /\ gw' = [gw EXCEPT ![c] = "Open"]
            /\ sent' = [sent EXCEPT ![c] = Append(@, Frame("connection_established", None, 0))]
    /\ UNCHANGED <<svcVars, is_active, last_activity, audio_buffer, processing_queue,
                   response_queue, conversation_history, chunk_result, idVars,
                   gwSession, wsClosed, closeCalls, taskVars, now>>

\* connect_websocket, then the connection_established frame; an unknown session
\* raises ValueError, which ends the endpoint through its finally clause
GwAttach(c) ==
    /\ gw[c] = "Connecting"
    /\ LET s == gwSession[c] IN
       IF s \notin active_sessions
       THEN /\ gw' = [gw EXCEPT ![c] = "Closed"]
            /\ websocket' = disconnect_websocket(s)
            /\ UNCHANGED <<last_activity, sent>>
       ELSE /\ websocket' = [websocket EXCEPT ![s] = c]
            /\ last_activity' = [last_activity EXCEPT ![s] = now]
            /\ gw' = [gw EXCEPT ![c] = "Open"]
            /\ sent' = [sent EXCEPT ![c] = Append(@, Frame("connection_established", None, 0))]
    /\ UNCHANGED <<svcVars, is_active, audio_buffer, processing_queue, response_queue,
                   conversation_history, chunk_result, idVars, gwSession, wsClosed,
                   closeCalls, taskVars, now>>

\* frames sent so far, over all connections
RECURSIVE TotalSent(_)
TotalSent(C) ==
    IF C = {} THEN 0
    ELSE LET c == CHOOSE x \in C : TRUE IN Len(sent[c]) + TotalSent(C \ {c})

\* the receive loop reads the next frame
Receiving(c) == CanSend(c) /\ TotalSent(Conns) < MaxSent

\* a receive loop without its inner except clauses: the exception reaches the
\* endpoint's outer handler, which sends the error frame and leaves through
\* the finally clause
RecvUnparseableEndsLoop(c, kind) ==
    /\ Receiving(c)
    /\ kind \in {"badjson", "notobject"}
    /\ sent' = send_text(c, ErrorFrame("Connection error"))
    /\ gw' = [gw EXCEPT ![c] = "Closed"]
    /\ websocket' = disconnect_websocket(gwSession[c])
    /\ UNCHANGED <<svcVars, is_active, last_activity, audio_buffer, processing_queue,
                   response_queue, conversation_history, chunk_result, idVars,
                   gwSession, wsClosed, closeCalls, taskVars, now>>

\* json.loads raises JSONDecodeError ("badjson"), or yields a value that is no
\* object so that message.get raises AttributeError ("notobject"): the loop's
\* except clauses send one error frame and the loop goes on
RecvUnparseable(c, kind) ==
    /\ Receiving(c)
    /\ kind \in {"badjson", "notobject"}
    /\ sent' = send_text(c, IF kind = "badjson"
                            THEN EchoFrame("Invalid JSON format",
                                           sanitize_html(ExceptionText(kind)))
                            ELSE EchoFrame("Message processing error",
                                           ExceptionText(kind)))
    /\ UNCHANGED <<svcVars, sessVars, chunk_result, idVars, gw, gwSession, wsClosed,
                   closeCalls, taskVars, now>>

\* a message type other than audio_chunk, text_request, control
RecvUnknownType(c, message_type) ==
    /\ Receiving(c)
    /\ sent' = send_text(c, EchoFrame("Unknown message type", sanitize_html(message_type)))
    /\ UNCHANGED <<svcVars, sessVars, chunk_result, idVars, gw, gwSession, wsClosed,
                   closeCalls, taskVars, now>>

\* handle_audio_chunk: the frame is refused when audio_data is the empty string,
\* when bytes.fromhex raises, or when process_audio_stream finds no session
AudioChunkRefused(c, audio_hex) ==
    \/ audio_hex = <<>>
    \/ fromhex(audio_hex) = -1
    \/ gwSession[c] \notin active_sessions

AudioChunkError(c, audio_hex) ==
    IF audio_hex = <<>> THEN "Audio chunk processing error: No audio data provided"
    ELSE IF fromhex(audio_hex) = -1
         THEN "Audio chunk processing error: non-hexadecimal number found"
    ELSE "Audio chunk processing error: Session not found"

RecvAudioChunk(c, audio_hex) ==
    /\ Receiving(c)
    /\ IF AudioChunkRefused(c, audio_hex)
       THEN /\ sent' = send_text(c, ErrorFrame(AudioChunkError(c, audio_hex)))
            /\ UNCHANGED <<audio_buffer, processing_queue, last_activity, nextChunk>>
       ELSE /\ nextChunk <= MaxChunks
            /\ AddAudioChunkEffect(gwSession[c], fromhex(audio_hex))
            /\ sent' = send_text(c, Frame("chunk_received", nextChunk, fromhex(audio_hex)))
    /\ UNCHANGED <<svcVars, is_active, websocket, response_queue, conversation_history,
                   chunk_result, nextSession, nextRequest, gw, gwSession, wsClosed,
                   closeCalls, taskVars, now>>

\* handle_text_request / generate_speech_response
TextRequestRefused(c, text) ==
    \/ strip(text) = <<>>
    \/ gwSession[c] \notin active_sessions

TextRequestError(c, text) ==
    IF strip(text) = <<>> THEN "Text request processing error: No text provided"
    ELSE "Text request processing error: Session not found"

RecvTextRequest(c, text) ==
    /\ Receiving(c)
    /\ IF TextRequestRefused(c, text)
       THEN /\ sent' = send_text(c, ErrorFrame(TextRequestError(c, text)))
            /\ UNCHANGED <<response_queue, last_activity, nextRequest>>
       ELSE /\ nextRequest <= MaxRequests
            /\ response_queue' = [response_queue EXCEPT ![gwSession[c]] = Append(@, nextRequest)]
            /\ last_activity' = [last_activity EXCEPT ![gwSession[c]] = now]
            /\ nextRequest' = nextRequest + 1
            /\ sent' = send_text(c, Frame("tts_queued", nextRequest, 0))
    /\ UNCHANGED <<svcVars, is_active, websocket, audio_buffer, processing_queue,
                   conversation_history, chunk_result, nextSession, nextChunk, gw,
                   gwSession, wsClosed, closeCalls, taskVars, now>>

\* handle_control_message
ControlReply(command) ==
    CASE command = "ping"  -> Frame("pong", None, 0)
      [] command = "stats" -> Frame("stats_response", None, 0)
      [] command = "reset" -> Frame("reset_complete", None, 0)
      [] OTHER             -> EchoFrame("Unknown control command", CommandText(command))

\* a control handler that gives up the connection on an unknown command
RecvControlClosesOnUnknown(c, command) ==
    /\ Receiving(c)
    /\ sent' = send_text(c, ControlReply(command))
    /\ gw' = [gw EXCEPT ![c] = IF command \in {"ping", "stats", "reset"}
                                THEN "Open" ELSE "Closed"]
    /\ websocket' = IF command \in {"ping", "stats", "reset"}
                    THEN websocket ELSE disconnect_websocket(gwSession[c])
    /\ UNCHANGED <<svcVars, is_active, last_activity, audio_buffer, processing_queue,
                   response_queue, conversation_history, chunk_result, idVars,
                   gwSession, wsClosed, closeCalls, taskVars, now>>

\* a reset that does clear the session's buffer, queues and history
RecvControlResets(c, command) ==
    /\ Receiving(c)
    /\ sent' = send_text(c, ControlReply(command))
    /\ LET s == gwSession[c] IN
       IF command = "reset" /\ s \in active_sessions
       THEN /\ audio_buffer' = [audio_buffer EXCEPT ![s] = EmptyBuffer]
            /\ processing_queue' = [processing_queue EXCEPT ![s] = <<>>]
            /\ response_queue' = [response_queue EXCEPT ![s] = <<>>]
            /\ conversation_history' = [conversation_history EXCEPT ![s] = <<>>]
       ELSE UNCHANGED <<audio_buffer, processing_queue, response_queue,
                        conversation_history>>
    /\ UNCHANGED <<svcVars, is_active, websocket, last_activity, chunk_result, idVars,
                   gw, gwSession, wsClosed, closeCalls, taskVars, now>>

\* a control handler that counts the frame as activity of the session
RecvControlUpdatesActivity(c, command) ==
    /\ Receiving(c)
    /\ sent' = send_text(c, ControlReply(command))
    /\ last_activity' = [last_activity EXCEPT ![gwSession[c]] = now]
    /\ UNCHANGED <<svcVars, is_active, websocket, audio_buffer, processing_queue,
                   response_queue, conversation_history, chunk_result, idVars,
                   gw, gwSession, wsClosed, closeCalls, taskVars, now>>

RecvControl(c, command) ==
    /\ Receiving(c)
    /\ sent' = send_text(c, ControlReply(command))
    /\ UNCHANGED <<svcVars, sessVars, chunk_result, idVars, gw, gwSession, wsClosed,
                   closeCalls, taskVars, now>>

\* a detach that also deactivates the session
GwDisconnectDeactivates(c) ==
    /\ gw[c] = "Open"
    /\ gw' = [gw EXCEPT ![c] = "Closed"]
    /\ websocket' = disconnect_websocket(gwSession[c])
    /\ is_active' = [is_active EXCEPT ![gwSession[c]] = FALSE]
    /\ UNCHANGED <<svcVars, last_activity, audio_buffer, processing_queue,
                   response_queue, conversation_history, chunk_result, idVars,
                   gwSession, sent, wsClosed, closeCalls, taskVars, now>>

\* receive_text raises (the client went away, or the server side closed the
\* socket): the finally clause runs disconnect_websocket
GwDisconnect(c) ==
    /\ gw[c] = "Open"
    /\ gw' = [gw EXCEPT ![c] = "Closed"]
    /\ websocket' = disconnect_websocket(gwSession[c])
    /\ UNCHANGED <<svcVars, is_active, last_activity, audio_buffer, processing_queue,
                   response_queue, conversation_history, chunk_result, idVars,
                   gwSession, sent, wsClosed, closeCalls, taskVars, now>>

\* the connections in C come and go
GwConnect(C) ==
    \/ \E c \in C, s \in SessionIds : GwAccept(c, s)
    \/ \E c \in C : GwAttach(c)
    \/ \E c \in C : GwDisconnect(c)

\* the clients of the connections in C send frames of every kind
GwFrames(C) ==
    \/ \E c \in C, kind \in {"badjson", "notobject"} : RecvUnparseable(c, kind)
    \/ \E c \in C : RecvUnknownType(c, <<"c">>)
    \/ \E c \in C, h \in HexStrings : RecvAudioChunk(c, h)
    \/ \E c \in C, t \in TextStrings : RecvTextRequest(c, t)
    \/ \E c \in C, k \in Commands : RecvControl(c, k)

\* ------------------------------------------------------ close_session
\* the part of the state close_session writes
CloseState ==
    [active_sessions |-> active_sessions, is_active |-> is_active,
     wsClosed |-> wsClosed, closeCalls |-> closeCalls, suspended |-> FALSE]

\* a close_session without the registry lookup that guards it
close_session_unguarded(st, s) ==
    LET c   == websocket[s]
        st1 == [st EXCEPT !.is_active[s] = FALSE, !.suspended = FALSE]
    IN  IF c = None
        THEN [st1 EXCEPT !.active_sessions = @ \ {s}]
        ELSE IF gw[c] = "Open" /\ ~st1.wsClosed[c]
        THEN [st1 EXCEPT !.wsClosed[c] = TRUE, !.closeCalls[c] = @ + 1,
                         !.suspended = TRUE]
        ELSE [st1 EXCEPT !.closeCalls[c] = @ + 1, !.active_sessions = @ \ {s}]

\* AudioStreamingService.close_session from its start to the suspension in
\* websocket.close(), or to its end when nothing suspends: a close() of a
\* socket that is no longer open raises at once and the bare except swallows it
close_session(st, s) ==
    IF s \notin st.active_sessions
    THEN [st EXCEPT !.suspended = FALSE]
    ELSE LET c   == websocket[s]
             st1 == [st EXCEPT !.is_active[s] = FALSE, !.suspended = FALSE]
         IN  IF c = None
             THEN [st1 EXCEPT !.active_sessions = @ \ {s}]
             ELSE IF gw[c] = "Open" /\ ~st1.wsClosed[c]
             THEN [st1 EXCEPT !.wsClosed[c] = TRUE, !.closeCalls[c] = @ + 1,
                              !.suspended = TRUE]
             ELSE [st1 EXCEPT !.closeCalls[c] = @ + 1, !.active_sessions = @ \ {s}]

SetCloseState(st) ==
    /\ active_sessions' = st.active_sessions
    /\ is_active' = st.is_active
    /\ wsClosed' = st.wsClosed
    /\ closeCalls' = st.closeCalls

\* close_streaming_session (DELETE /sessions/{id}) up to the first suspension
DeleteStart(d, s) ==
    /\ deleter[d].pc = "idle"
    /\ LET st == close_session(CloseState, s) IN
       /\ SetCloseState(st)
       /\ deleter' = [deleter EXCEPT ![d] =
              [pc |-> IF st.suspended THEN "closing" ELSE "done", session_id |-> s]]
    /\ UNCHANGED <<tts_initialized, startVars, websocket, last_activity, audio_buffer,
                   processing_queue, response_queue, conversation_history,
                   chunk_result, idVars, gw, gwSession, sent, tworker, sworker, cleanup,
                   expiry, now>>

\* websocket.close() returned: del self.active_sessions[session_id]; a KeyError
\* becomes the handler's HTTP 500
DeleteFinish(d) ==
    /\ deleter[d].pc = "closing"
    /\ LET s == deleter[d].session_id IN
       IF s \in active_sessions
       THEN /\ active_sessions' = active_sessions \ {s}
            /\ deleter' = [deleter EXCEPT ![d].pc = "done"]
       ELSE /\ deleter' = [deleter EXCEPT ![d].pc = "failed"]
            /\ UNCHANGED active_sessions
    /\ UNCHANGED <<tts_initialized, startVars, sessVars, chunk_result, idVars, connVars,
                   tworker, sworker, cleanup, expiry, now>>

\* AudioStreamingService.get_session_stats: None for an ID that is not
\* registered (the endpoint turns it into a 404), the statistics otherwise
get_session_stats(s) == IF s \in active_sessions THEN "stats" ELSE "none"

\* ------------------------------------------------------ the expiry task
\* the for loop over expired_sessions from position idx, up to the first
\* close_session that suspends
RECURSIVE CloseExpired(_, _, _)
CloseExpired(st, expired_sessions, idx) ==
    IF idx > Len(expired_sessions)
    THEN [st |-> st, idx |-> idx, pc |-> "sleep"]
    ELSE LET st1 == close_session(st, expired_sessions[idx]) IN
         IF st1.suspended
         THEN [st |-> st1, idx |-> idx, pc |-> "closing"]
         ELSE CloseExpired(st1, expired_sessions, idx + 1)

\* _session_cleanup_loop: one pass, from the scan of the registry on
ExpiryPass ==
    /\ expiry.pc = "sleep"
    /\ LET expired_sessions == SelectSeq(InOrder(active_sessions), is_expired)
           r == CloseExpired(CloseState, expired_sessions, 1)
       IN  /\ SetCloseState(r.st)
           /\ expiry' = [pc |-> r.pc, expired_sessions |-> expired_sessions,
                         idx |-> r.idx]
    /\ UNCHANGED <<tts_initialized, startVars, websocket, last_activity, audio_buffer,
                   processing_queue, response_queue, conversation_history,
                   chunk_result, idVars, gw, gwSession, sent, tworker, sworker, cleanup,
                   deleter, now>>

\* the suspended close_session resumes: del self.active_sessions[session_id];
\* a KeyError leaves the for loop through the loop's except clause
ExpiryResume ==
    /\ expiry.pc = "closing"
    /\ LET s == expiry.expired_sessions[expiry.idx] IN
       IF s \in active_sessions
       THEN LET r == CloseExpired([CloseState EXCEPT !.active_sessions = @ \ {s}],
                                  expiry.expired_sessions, expiry.idx + 1)
            IN  /\ SetCloseState(r.st)
                /\ expiry' = [expiry EXCEPT !.pc = r.pc, !.idx = r.idx]
       ELSE /\ expiry' = [expiry EXCEPT !.pc = "sleep"]
            /\ UNCHANGED <<active_sessions, is_active, wsClosed, closeCalls>>
    /\ UNCHANGED <<tts_initialized, startVars, websocket, last_activity, audio_buffer,
                   processing_queue, response_queue, conversation_history,
                   chunk_result, idVars, gw, gwSession, sent, tworker, sworker, cleanup,
                   deleter, now>>

\* time.time() advances
Tick ==
    /\ now < MaxTime
    /\ now' = now + 1
    /\ UNCHANGED <<svcVars, sessVars, chunk_result, idVars, connVars, taskVars>>

\* ------------------------------------------------------------ cleanup
\* worker.cancel(): every suspension point of a worker lies under
\* `except Exception` clauses only, which let CancelledError through
CancelledWorker == [IdleWorker EXCEPT !.pc = "cancelled"]

\* session_cleanup_task.cancel(): a task suspended in websocket.close() gets
\* the CancelledError inside close_session's bare `except: pass`, which
\* swallows it, and runs on
cancel_cleanup_task(e) ==
    IF e.pc = "closing" THEN e ELSE [e EXCEPT !.pc = "cancelled"]

\* cleanup from a close_session that has returned: on to the next suspension,
\* or through the cancels and the model teardown to the end, where
\* shutdown_streaming_service sets the global to None
CleanupContinue(r, sessions) ==
    /\ SetCloseState(r.st)
    /\ IF r.pc = "closing"
       THEN /\ cleanup' = [pc |-> "closing", sessions |-> sessions, idx |-> r.idx]
            /\ UNCHANGED <<tts_initialized, is_initialized, streaming_service,
                           tworker, sworker, expiry>>
       ELSE /\ cleanup' = [pc |-> "done", sessions |-> sessions, idx |-> r.idx]
            /\ tworker' = [w \in Workers |-> CancelledWorker]
            /\ sworker' = [w \in Workers |-> CancelledWorker]
            /\ expiry' = cancel_cleanup_task(expiry)
            /\ tts_initialized' = FALSE
            /\ is_initialized' = FALSE
            /\ streaming_service' = "None"
    /\ UNCHANGED <<initializeCalls, caller, websocket, last_activity, audio_buffer,
                   processing_queue, response_queue, conversation_history,
                   chunk_result, idVars, gw, gwSession, sent, deleter, now>>

\* shutdown_streaming_service calls cleanup(), which closes the sessions of
\* list(self.active_sessions.keys()) in turn
CleanupStart ==
    /\ cleanup.pc = "idle"
    /\ streaming_service = "service"
    /\ LET sessions == InOrder(active_sessions)
       IN  CleanupContinue(CloseExpired(CloseState, sessions, 1), sessions)

\* the suspended close_session resumes: del self.active_sessions[session_id];
\* a KeyError leaves cleanup() before it has cancelled anything
CleanupResume ==
    /\ cleanup.pc = "closing"
    /\ LET s == cleanup.sessions[cleanup.idx] IN
       IF s \in active_sessions
       THEN CleanupContinue(
                CloseExpired([CloseState EXCEPT !.active_sessions = @ \ {s}],
                             cleanup.sessions, cleanup.idx + 1),
                cleanup.sessions)
       ELSE /\ cleanup' = [cleanup EXCEPT !.pc = "failed"]
            /\ UNCHANGED <<svcVars, sessVars, chunk_result, idVars, connVars,
                           tworker, sworker, expiry, deleter, now>>

\* ---------------------------------------------------- the worker tasks
\* `for session in list(self.active_sessions.values())`, skipping the sessions
\* whose is_active is false
RECURSIVE SkipInactive(_)
SkipInactive(todo) ==
    IF todo = <<>> \/ is_active[Head(todo)] THEN todo ELSE SkipInactive(Tail(todo))

\* the worker's next suspension point: wait_for(queue.get()) on the next active
\* session of its pass, or the sleep that ends the pass
NextVisit(todo) ==
    LET rest == SkipInactive(todo) IN
    IF rest = <<>> THEN IdleWorker
    ELSE [IdleWorker EXCEPT !.pc = "get", !.todo = Tail(rest), !.session = Head(rest)]

HistoryEntry(type, ref, size) == [type |-> type, ref |-> ref, size |-> size]

\* _transcription_worker: asyncio.sleep returned, a new pass starts
TwStartPass(w) ==
    /\ tworker[w].pc = "sleep"
    /\ tworker' = [tworker EXCEPT ![w] = NextVisit(InOrder(active_sessions))]
    /\ UNCHANGED <<svcVars, sessVars, chunk_result, idVars, connVars, sworker, cleanup,
                   expiry, deleter, now>>

\* a queue read that leaves the chunk on the queue
TwGetKeepsChunk(w) ==
    /\ tworker[w].pc = "get"
    /\ processing_queue[tworker[w].session] # <<>>
    /\ tworker' = [tworker EXCEPT ![w].pc = "transcribing",
                                  ![w].item = Head(processing_queue[tworker[w].session])]
    /\ UNCHANGED <<svcVars, sessVars, chunk_result, idVars, connVars, sworker, cleanup,
                   expiry, deleter, now>>

\* processing_queue.get() returned a chunk: _process_audio_chunk hands it to
\* the executor
TwGet(w) ==
    /\ tworker[w].pc = "get"
    /\ processing_queue[tworker[w].session] # <<>>
    /\ LET s == tworker[w].session IN
       /\ processing_queue' = [processing_queue EXCEPT ![s] = Tail(@)]
       /\ tworker' = [tworker EXCEPT ![w].pc = "transcribing",
                                     ![w].item = Head(processing_queue[s])]
    /\ UNCHANGED <<svcVars, is_active, websocket, last_activity, audio_buffer,
                   response_queue, conversation_history, chunk_result, idVars,
                   connVars, sworker, cleanup, expiry, deleter, now>>

\* asyncio.TimeoutError: continue with the next session
TwTimeout(w) ==
    /\ tworker[w].pc = "get"
    /\ processing_queue[tworker[w].session] = <<>>
    /\ tworker' = [tworker EXCEPT ![w] = NextVisit(tworker[w].todo)]
    /\ UNCHANGED <<svcVars, sessVars, chunk_result, idVars, connVars, sworker, cleanup,
                   expiry, deleter, now>>

\* the conversation entry the transcription worker adds: only for a result
\* with a non-empty text
TranscriptionHistory(s, chunk, result) ==
    IF result = "text"
    THEN [conversation_history EXCEPT ![s] =
             add_conversation_entry(@, HistoryEntry("transcription", chunk, 0))]
    ELSE conversation_history

\* a worker whose task ends when _process_audio_chunk has failed
TwTranscribedStopsOnFailure(w, result) ==
    /\ tworker[w].pc = "transcribing"
    /\ LET s     == tworker[w].session
           chunk == tworker[w].item
       IN  /\ chunk_result' = [chunk_result EXCEPT ![chunk] = result]
           /\ audio_buffer' = [audio_buffer EXCEPT ![s] = mark_processed(@, chunk)]
           /\ conversation_history' = TranscriptionHistory(s, chunk, result)
           /\ tworker' = [tworker EXCEPT ![w] =
                  IF result = "none" THEN [IdleWorker EXCEPT !.pc = "dead"]
                  ELSE NextVisit(tworker[w].todo)]
    /\ UNCHANGED <<svcVars, is_active, websocket, last_activity, processing_queue,
                   response_queue, idVars, connVars, sworker, cleanup, expiry, deleter, now>>

\* a worker that stays on the session it has just served until its queue is
\* empty
TwTranscribedDrains(w, result) ==
    /\ tworker[w].pc = "transcribing"
    /\ LET s     == tworker[w].session
           chunk == tworker[w].item
       IN  /\ chunk_result' = [chunk_result EXCEPT ![chunk] = result]
           /\ audio_buffer' = [audio_buffer EXCEPT ![s] = mark_processed(@, chunk)]
           /\ conversation_history' = TranscriptionHistory(s, chunk, result)
           /\ tworker' = [tworker EXCEPT ![w].pc = "get", ![w].item = None]
    /\ UNCHANGED <<svcVars, is_active, websocket, last_activity, processing_queue,
                   response_queue, idVars, connVars, sworker, cleanup, expiry, deleter, now>>

\* _process_audio_chunk returned: result is a dict with text ("text"), a dict
\* with empty text ("empty", _transcribe_chunk_file failed) or None ("none").
\* The chunk is marked processed, the result is sent when a websocket is set
\* and the result is truthy, then the history entry is added.
TwTranscribed(w, result) ==
    /\ tworker[w].pc = "transcribing"
    /\ LET s     == tworker[w].session
           chunk == tworker[w].item
           c     == websocket[s]
       IN  /\ chunk_result' = [chunk_result EXCEPT ![chunk] = result]
           /\ audio_buffer' = [audio_buffer EXCEPT ![s] = mark_processed(@, chunk)]
           /\ IF c # None /\ result # "none" /\ CanSend(c)
              THEN /\ sent' = send_text(c, Frame("transcription", chunk, 0))
                   /\ tworker' = [tworker EXCEPT ![w].pc = "sending",
                                                 ![w].result = result]
                   /\ UNCHANGED conversation_history
              ELSE /\ conversation_history' = TranscriptionHistory(s, chunk, result)
                   /\ tworker' = [tworker EXCEPT ![w] = NextVisit(tworker[w].todo)]
                   /\ UNCHANGED sent
    /\ UNCHANGED <<svcVars, is_active, websocket, last_activity, processing_queue,
                   response_queue, idVars, gw, gwSession, wsClosed, closeCalls,
                   sworker, cleanup, expiry, deleter, now>>

\* send_text returned
TwSent(w) ==
    /\ tworker[w].pc = "sending"
    /\ conversation_history' =
           TranscriptionHistory(tworker[w].session, tworker[w].item, tworker[w].result)
    /\ tworker' = [tworker EXCEPT ![w] = NextVisit(tworker[w].todo)]
    /\ UNCHANGED <<svcVars, is_active, websocket, last_activity, audio_buffer,
                   processing_queue, response_queue, chunk_result, idVars, connVars,
                   sworker, cleanup, expiry, deleter, now>>

\* _tts_worker; the TTS workers are started only when tts_initialized
SwStartPass(w) ==
    /\ tts_initialized
    /\ sworker[w].pc = "sleep"
    /\ sworker' = [sworker EXCEPT ![w] = NextVisit(InOrder(active_sessions))]
    /\ UNCHANGED <<svcVars, sessVars, chunk_result, idVars, connVars, tworker, cleanup,
                   expiry, deleter, now>>

SwGet(w) ==
    /\ sworker[w].pc = "get"
    /\ response_queue[sworker[w].session] # <<>>
    /\ LET s == sworker[w].session IN
       /\ response_queue' = [response_queue EXCEPT ![s] = Tail(@)]
       /\ sworker' = [sworker EXCEPT ![w].pc = "synthesizing",
                                     ![w].item = Head(response_queue[s])]
    /\ UNCHANGED <<svcVars, is_active, websocket, last_activity, audio_buffer,
                   processing_queue, conversation_history, chunk_result, idVars,
                   connVars, tworker, cleanup, expiry, deleter, now>>

SwTimeout(w) ==
    /\ sworker[w].pc = "get"
    /\ response_queue[sworker[w].session] = <<>>
    /\ sworker' = [sworker EXCEPT ![w] = NextVisit(sworker[w].todo)]
    /\ UNCHANGED <<svcVars, sessVars, chunk_result, idVars, connVars, tworker, cleanup,
                   expiry, deleter, now>>

\* the tts_response entry is added whatever the synthesis gave
SpeechHistory(s, request, audio) ==
    [conversation_history EXCEPT ![s] =
        add_conversation_entry(@, HistoryEntry("tts_response", request,
                                               IF audio = "audio" THEN 1 ELSE 0))]

\* a worker that sends whatever is not None, empty audio included
SwSynthesizedSendsEmpty(w, audio) ==
    /\ sworker[w].pc = "synthesizing"
    /\ LET s       == sworker[w].session
           request == sworker[w].item
           c       == websocket[s]
       IN  IF c # None /\ audio # "none" /\ CanSend(c)
           THEN /\ sent' = send_text(c, Frame("audio_response", request,
                                              IF audio = "audio" THEN 1 ELSE 0))
                /\ sworker' = [sworker EXCEPT ![w].pc = "sending", ![w].result = audio]
                /\ UNCHANGED conversation_history
           ELSE /\ conversation_history' = SpeechHistory(s, request, audio)
                /\ sworker' = [sworker EXCEPT ![w] = NextVisit(sworker[w].todo)]
                /\ UNCHANGED sent
    /\ UNCHANGED <<svcVars, is_active, websocket, last_activity, audio_buffer,
                   processing_queue, response_queue, chunk_result, idVars, gw,
                   gwSession, wsClosed, closeCalls, tworker, cleanup, expiry, deleter, now>>

\* a worker that puts a request whose synthesis failed back on the queue
SwSynthesizedRequeues(w, audio) ==
    /\ sworker[w].pc = "synthesizing"
    /\ LET s       == sworker[w].session
           request == sworker[w].item
           c       == websocket[s]
       IN  /\ IF c # None /\ audio = "audio" /\ CanSend(c)
              THEN /\ sent' = send_text(c, Frame("audio_response", request, 1))
                   /\ sworker' = [sworker EXCEPT ![w].pc = "sending", ![w].result = audio]
                   /\ UNCHANGED conversation_history
              ELSE /\ conversation_history' = SpeechHistory(s, request, audio)
                   /\ sworker' = [sworker EXCEPT ![w] = NextVisit(sworker[w].todo)]
                   /\ UNCHANGED sent
           /\ response_queue' = IF audio = "audio" THEN response_queue
                                 ELSE [response_queue EXCEPT ![s] = Append(@, request)]
    /\ UNCHANGED <<svcVars, is_active, websocket, last_activity, audio_buffer,
                   processing_queue, chunk_result, idVars, gw,
                   gwSession, wsClosed, closeCalls, tworker, cleanup, expiry, deleter, now>>

\* _generate_speech_chunk returned: bytes ("audio"), b"" ("empty",
\* _generate_speech_blocking failed) or None ("none")
SwSynthesized(w, audio) ==
    /\ sworker[w].pc = "synthesizing"
    /\ LET s       == sworker[w].session
           request == sworker[w].item
           c       == websocket[s]
       IN  IF c # None /\ audio = "audio" /\ CanSend(c)
           THEN /\ sent' = send_text(c, Frame("audio_response", request, 1))
                /\ sworker' = [sworker EXCEPT ![w].pc = "sending", ![w].result = audio]
                /\ UNCHANGED conversation_history
           ELSE /\ conversation_history' = SpeechHistory(s, request, audio)
                /\ sworker' = [sworker EXCEPT ![w] = NextVisit(sworker[w].todo)]
                /\ UNCHANGED sent
    /\ UNCHANGED <<svcVars, is_active, websocket, last_activity, audio_buffer,
                   processing_queue, response_queue, chunk_result, idVars, gw,
                   gwSession, wsClosed, closeCalls, tworker, cleanup, expiry, deleter, now>>

SwSent(w) ==
    /\ sworker[w].pc = "sending"
    /\ conversation_history' =
           SpeechHistory(sworker[w].session, sworker[w].item, sworker[w].result)
    /\ sworker' = [sworker EXCEPT ![w] = NextVisit(sworker[w].todo)]
    /\ UNCHANGED <<svcVars, is_active, websocket, last_activity, audio_buffer,
                   processing_queue, response_queue, chunk_result, idVars, connVars,
                   tworker, cleanup, expiry, deleter, now>>

TranscriptionWorkers ==
    \/ \E w \in Workers : TwStartPass(w)
    \/ \E w \in Workers : TwGet(w)
    \/ \E w \in Workers : TwTimeout(w)
    \/ \E w \in Workers, r \in {"text", "empty", "none"} : TwTranscribed(w, r)
    \/ \E w \in Workers : TwSent(w)

SynthesisWorkers ==
    \/ \E w \in Workers : SwStartPass(w)
    \/ \E w \in Workers : SwGet(w)
    \/ \E w \in Workers : SwTimeout(w)
    \/ \E w \in Workers, a \in {"audio", "empty", "none"} : SwSynthesized(w, a)
    \/ \E w \in Workers : SwSent(w)

\* ------------------------------------------------------ specifications
\* the buffer driven directly
NextBuffer ==
    \/ CreateSession
    \/ \E s \in SessionIds, size \in 0..MaxChunkSize : ProcessAudioStream(s, size)
    \/ \E s \in SessionIds, id \in ChunkIds : MarkProcessed(s, id)

\* the gateway and its clients
NextGateway ==
    \/ CreateSession
    \/ GwConnect(1..MaxFrameConns)
    \/ GwFrames(1..MaxFrameConns)

\* sessions, connections and DELETE requests
NextClose ==
    \/ CreateSession
    \/ GwConnect(Conns)
    \/ \E d \in Deleters, s \in SessionIds : DeleteStart(d, s)
    \/ \E d \in Deleters : DeleteFinish(d)

\* sessions, connections, the clock, the expiry task and DELETE requests
NextExpiry ==
    \/ CreateSession
    \/ GwConnect(Conns)
    \/ Tick
    \/ ExpiryPass
    \/ ExpiryResume
    \/ \E d \in Deleters, s \in SessionIds : DeleteStart(d, s)
    \/ \E d \in Deleters : DeleteFinish(d)

\* clients streaming audio to the transcription workers, and a DELETE request
NextTranscription ==
    \/ CreateSession
    \/ \E c \in Conns, s \in SessionIds : GwAccept(c, s)
    \/ \E c \in Conns : GwAttach(c)
    \/ \E c \in Conns : RecvAudioChunk(c, <<"h", "h">>)
    \/ TranscriptionWorkers
    \/ \E s \in SessionIds : DeleteStart(1, s)
    \/ DeleteFinish(1)

\* clients sending text to the synthesis workers, and a DELETE request
NextSynthesis ==
    \/ CreateSession
    \/ \E c \in Conns, s \in SessionIds : GwAccept(c, s)
    \/ \E c \in Conns : GwAttach(c)
    \/ \E c \in Conns : RecvTextRequest(c, <<"c">>)
    \/ SynthesisWorkers
    \/ \E s \in SessionIds : DeleteStart(1, s)
    \/ DeleteFinish(1)

\* clients sending frames the protocol refuses (and audio for a session that a
\* DELETE request may have closed), on connections that all name the first
\* session
NextProtocolErrors ==
    \/ CreateSession
    \/ \E c \in Conns : GwAccept(c, 1)
    \/ \E c \in Conns : GwAttach(c)
    \/ \E c \in Conns : GwDisconnect(c)
    \/ \E c \in Conns, kind \in {"badjson", "notobject"} : RecvUnparseable(c, kind)
    \/ \E c \in Conns : RecvUnknownType(c, <<"c">>)
    \/ \E c \in Conns : RecvControl(c, "bogus")
    \/ \E c \in Conns, h \in {<<>>, <<"x">>, <<"h", "h">>} : RecvAudioChunk(c, h)
    \/ \E c \in Conns, t \in {<<"s">>, <<"c">>} : RecvTextRequest(c, t)
    \/ DeleteStart(1, 1)
    \/ DeleteFinish(1)

\* the transcription workers, fed by direct calls of process_audio_stream on
\* sessions that have no connection (so that no result is sent)
NextWorkers ==
    \/ CreateSession
    \/ \E s \in SessionIds : ProcessAudioStream(s, 1)
    \/ \E w \in Workers : TwStartPass(w)
    \/ \E w \in Workers : TwGet(w)
    \/ \E w \in Workers : TwTimeout(w)
    \/ \E w \in Workers, r \in {"text", "empty", "none"} : TwTranscribed(w, r)

\* connections that attach, detach and attach again while the clock runs and a
\* DELETE request closes a session
NextAttach ==
    \/ CreateSession
    \/ GwConnect(Conns)
    \/ Tick
    \/ \E s \in SessionIds : DeleteStart(1, s)
    \/ DeleteFinish(1)

\* connections that come and go on the first session while audio arrives
NextDetach ==
    \/ CreateSession
    \/ \E c \in Conns : GwAccept(c, 1)
    \/ \E c \in Conns : GwAttach(c)
    \/ \E c \in Conns : GwDisconnect(c)
    \/ \E s \in SessionIds : ProcessAudioStream(s, 1)

\* the life of the connections of the first session, which a DELETE request
\* may close
NextLifecycle ==
    \/ CreateSession
    \/ \E c \in Conns : GwAccept(c, 1)
    \/ \E c \in Conns : GwAttach(c)
    \/ \E c \in Conns : GwDisconnect(c)
    \/ DeleteStart(1, 1)
    \/ DeleteFinish(1)

\* text requests on the connections of the first session and the synthesis
\* workers
NextSpeech ==
    \/ CreateSession
    \/ \E c \in Conns : GwAccept(c, 1)
    \/ \E c \in Conns : GwAttach(c)
    \/ \E c \in Conns : GwDisconnect(c)
    \/ \E c \in Conns : RecvTextRequest(c, <<"c">>)
    \/ SynthesisWorkers

\* chunks of every size added to the buffer of the first session while the
\* workers mark them
NextBufferTasks ==
    \/ CreateSession
    \/ \E size \in 1..MaxChunkSize : ProcessAudioStream(1, size)
    \/ \E w \in Workers : TwStartPass(w)
    \/ \E w \in Workers : TwGet(w)
    \/ \E w \in Workers : TwTimeout(w)
    \/ \E w \in Workers : TwTranscribed(w, "text")

\* histories filled by direct calls
NextHistory ==
    \/ CreateSession
    \/ \E s \in SessionIds : AddConversationEntry(s)

\* clients whose frames carry text that the error frames echo
NextEcho ==
    \/ CreateSession
    \/ \E c \in Conns : GwAccept(c, 1)
    \/ \E c \in Conns : GwAttach(c)
    \/ \E c \in Conns, kind \in {"badjson", "notobject"} : RecvUnparseable(c, kind)
    \/ \E c \in Conns, t \in EchoTexts : RecvUnknownType(c, t)
    \/ \E c \in Conns, k \in {"ping", "bogus", "<bogus>"} : RecvControl(c, k)

\* the first requests of a process
NextStartup ==
    \/ \E k \in Callers : GetServiceStart(k)
    \/ \E k \in Callers, ok \in BOOLEAN : InitializeDone(k, ok)
    \/ \E k \in Callers : CreateSessionRequest(k)

\* one client streaming chunks of one and two bytes to the first session
\* while the workers transcribe them
NextStreaming ==
    \/ CreateSession
    \/ \E c \in 1..MaxFrameConns : GwAccept(c, 1)
    \/ \E c \in 1..MaxFrameConns : GwAttach(c)
    \/ \E c \in 1..MaxFrameConns, h \in {<<"h", "h">>, <<"h", "h", "h", "h">>} :
          RecvAudioChunk(c, h)
    \/ \E w \in Workers : TwStartPass(w)
    \/ \E w \in Workers : TwGet(w)
    \/ \E w \in Workers : TwTimeout(w)
    \/ \E w \in Workers, result \in {"text", "none"} : TwTranscribed(w, result)
    \/ \E w \in Workers : TwSent(w)

\* one session and its client, which sends frames of every type while the
\* clock runs, the expiry task scans and one worker of each kind serves
NextActivity ==
    \/ (nextSession = 1 /\ CreateSession)
    \/ GwAccept(1, 1)
    \/ GwAttach(1)
    \/ GwDisconnect(1)
    \/ \E k \in {"ping", "stats", "reset", "bogus"} : RecvControl(1, k)
    \/ RecvUnknownType(1, <<"c">>)
    \/ \E h \in {<<"x">>, <<"h", "h">>} : RecvAudioChunk(1, h)
    \/ \E t \in {<<"s">>, <<"c">>} : RecvTextRequest(1, t)
    \/ TwStartPass(1)
    \/ TwGet(1)
    \/ TwTimeout(1)
    \/ \E r \in {"text", "none"} : TwTranscribed(1, r)
    \/ TwSent(1)
    \/ SwStartPass(1)
    \/ SwGet(1)
    \/ SwTimeout(1)
    \/ SwSynthesized(1, "audio")
    \/ SwSent(1)
    \/ Tick
    \/ ExpiryPass
    \/ ExpiryResume

\* a worker of each kind serving two sessions; the client of the first sends
\* audio and text, and a DELETE request may close its socket under a worker
NextPipeline ==
    \/ (nextSession <= 2 /\ CreateSession)
    \/ GwAccept(1, 1)
    \/ GwAttach(1)
    \/ RecvAudioChunk(1, <<"h", "h">>)
    \/ RecvTextRequest(1, <<"c">>)
    \/ DeleteStart(1, 1)
    \/ DeleteFinish(1)
    \/ TwStartPass(1)
    \/ TwGet(1)
    \/ TwTimeout(1)
    \/ \E r \in {"text", "empty", "none"} : TwTranscribed(1, r)
    \/ TwSent(1)
    \/ SwStartPass(1)
    \/ SwGet(1)
    \/ SwTimeout(1)
    \/ \E a \in {"audio", "empty", "none"} : SwSynthesized(1, a)
    \/ SwSent(1)

\* the shutdown of a service that has sessions, a client, a worker of each
\* kind at work and the expiry task scanning
NextShutdown ==
    \/ CreateSession
    \/ GwAccept(1, 1)
    \/ GwAttach(1)
    \/ GwDisconnect(1)
    \/ RecvAudioChunk(1, <<"h", "h">>)
    \/ RecvTextRequest(1, <<"c">>)
    \/ TwStartPass(1)
    \/ TwGet(1)
    \/ TwTimeout(1)
    \/ TwTranscribed(1, "text")
    \/ TwSent(1)
    \/ SwStartPass(1)
    \/ SwGet(1)
    \/ SwTimeout(1)
    \/ SwSynthesized(1, "audio")
    \/ SwSent(1)
    \/ Tick
    \/ ExpiryPass
    \/ ExpiryResume
    \/ CleanupStart
    \/ CleanupResume

\* the same, with a DELETE request
NextWorkersClose ==
    \/ NextWorkers
    \/ \E s \in SessionIds : DeleteStart(1, s)

Next ==
    \/ NextBuffer
    \/ NextWorkers
    \/ NextProtocolErrors
    \/ NextGateway
    \/ NextExpiry
    \/ NextTranscription
    \/ NextSynthesis

Spec == Init /\ [][Next]_vars
SpecBuffer == Init /\ [][NextBuffer]_vars
SpecGateway == Init /\ [][NextGateway]_vars
SpecExpiry == Init /\ [][NextExpiry]_vars
SpecClose == Init /\ [][NextClose]_vars
SpecTranscription == Init /\ [][NextTranscription]_vars
SpecSynthesis == Init /\ [][NextSynthesis]_vars
SpecAttach == Init /\ [][NextAttach]_vars
SpecDetach == Init /\ [][NextDetach]_vars
\* the endpoint task runs on after accept(), and receive_text raises once the
\* server side has closed the socket
SpecFairLifecycle ==
    /\ Init /\ [][NextLifecycle]_vars
    /\ \A c \in Conns : WF_vars(GwAttach(c)) /\ WF_vars(wsClosed[c] /\ GwDisconnect(c))
SpecSpeech == Init /\ [][NextSpeech]_vars
SpecBufferTasks == Init /\ [][NextBufferTasks]_vars
SpecHistory == Init /\ [][NextHistory]_vars
SpecEcho == Init /\ [][NextEcho]_vars
SpecStartup == InitStartup /\ [][NextStartup]_vars
SpecStreaming == Init /\ [][NextStreaming]_vars
SpecActivity == Init /\ [][NextActivity]_vars
SpecShutdown == Init /\ [][NextShutdown]_vars
SpecWorkers == Init /\ [][NextWorkers]_vars

\* the event loop runs every task that is ready: a sleep and a queue timeout
\* return, and a collaborator call handed to the executor comes back
TranscriptionStep(w) ==
    \/ TwStartPass(w)
    \/ TwGet(w)
    \/ TwTimeout(w)
    \/ \E r \in {"text", "empty", "none"} : TwTranscribed(w, r)
SynthesisStep(w) ==
    \/ SwStartPass(w)
    \/ SwGet(w)
    \/ SwTimeout(w)
    \/ \E a \in {"audio", "empty", "none"} : SwSynthesized(w, a)
    \/ SwSent(w)
\* audio frames and the transcription workers, every worker task being run
SpecFairTranscription ==
    /\ Init /\ [][NextTranscription]_vars
    /\ \A w \in Workers : WF_vars(TranscriptionStep(w) \/ TwSent(w))
\* text requests and the synthesis workers of a service that may lack TTS
SpecFairSynthesis ==
    InitAnyTTS /\ [][NextSynthesis]_vars /\ \A w \in Workers : WF_vars(SynthesisStep(w))
SpecFairWorkers ==
    Init /\ [][NextWorkersClose]_vars /\ \A w \in Workers : WF_vars(TranscriptionStep(w))
\* the pipeline, its two worker tasks being run
SpecFairPipeline ==
    /\ Init /\ [][NextPipeline]_vars
    /\ WF_vars(TranscriptionStep(1) \/ TwSent(1))
    /\ WF_vars(SynthesisStep(1))
SpecProtocolErrors == Init /\ [][NextProtocolErrors]_vars
\* the gateway of a service whose TTS engine is not available (TTS_AVAILABLE false)
SpecGatewayNoTTS == InitNoTTS /\ [][NextGateway]_vars

\* -------------------------------------------------------------- claims
ChunkIdsOf(buf) == {buf.chunks[i].chunk_id : i \in DOMAIN buf.chunks}
Grew(c) == Len(sent'[c]) = Len(sent[c]) + 1
Last(seq) == seq[Len(seq)]

\* C1: after every AddChunk (interleaved with MarkProcessed) the buffer's
\* totalBytes is at most maxBytes.
C1_TotalWithinMax ==
    \A s \in SessionIds : audio_buffer[s].total_size <= max_size

\* what is left for an incoming chunk once every processed chunk is reclaimed
Insufficient(buf, size) == SumSizes(get_unprocessed_chunks(buf)) + size > max_size

\* C2: an audio chunk that does not fit even after reclaiming every processed
\* chunk is rejected: the buffer and the inbound queue stay as they are and no
\* chunk_received acknowledgment is sent.
C2_FullBufferRejects ==
    [][\A c \in Conns, h \in HexStrings :
          (/\ RecvAudioChunk(c, h)
           /\ ~AudioChunkRefused(c, h)
           /\ Insufficient(audio_buffer[gwSession[c]], fromhex(h)))
          => (/\ UNCHANGED <<audio_buffer, processing_queue>>
              /\ Last(sent'[c]).type # "chunk_received")]_vars

\* the chunks (in acceptance order: chunk ids are issued in that order) that
\* the transcription frames or history entries of a sequence are about
TranscriptionRefs(seq) == SelectSeq(seq, LAMBDA e : e.type = "transcription")
InAcceptanceOrder(seq) ==
    \A i, j \in DOMAIN seq : i < j => seq[i].ref < seq[j].ref

\* C3: within one session the transcription frames and events appear in the
\* order in which their chunks were accepted.
C3_FifoWithinSession ==
    /\ \A c \in Conns : InAcceptanceOrder(TranscriptionRefs(sent[c]))
    /\ \A s \in SessionIds : InAcceptanceOrder(TranscriptionRefs(conversation_history[s]))

\* C4: once a session is closed, the result of a collaborator call that was in
\* flight for it is discarded: its history gets no further event and its
\* connections get no transcription or audio_response frame.
C4_ResultDiscardedAfterClose ==
    [][\A s \in SessionIds :
          (s < nextSession /\ ~is_active[s])
          => (/\ conversation_history'[s] = conversation_history[s]
              /\ \A c \in Conns :
                    (gwSession[c] = s /\ Grew(c))
                    => Last(sent'[c]).type \notin {"transcription", "audio_response"})]_vars

\* C5: every chunk that leaves a buffer was processed when it left.
C5_NoUnprocessedEvicted ==
    [][\A s \in SessionIds : \A i \in DOMAIN audio_buffer[s].chunks :
          audio_buffer[s].chunks[i].chunk_id \notin ChunkIdsOf(audio_buffer'[s])
          => audio_buffer[s].chunks[i].processed]_vars

\* an eviction took a processed chunk and kept an older unprocessed one
C5_Witness ==
    /\ nextSession = 2
    /\ \E e \in ChunkIds :
          /\ e < nextChunk
          /\ e \notin ChunkIdsOf(audio_buffer[1])
          /\ \E i \in DOMAIN audio_buffer[1].chunks :
                /\ audio_buffer[1].chunks[i].chunk_id < e
                /\ ~audio_buffer[1].chunks[i].processed

\* C6: a CloseSession call on a session ID that an earlier call has already
\* closed (the ID was issued and is no longer registered) ends without error
\* and changes nothing: the registry stays as it is and no connection is closed
\* again.
C6_SecondCloseIsNoop ==
    [][\A d \in Deleters :
          (/\ deleter[d].pc = "idle"
           /\ deleter'[d].pc # "idle"
           /\ deleter'[d].session_id < nextSession
           /\ deleter'[d].session_id \notin active_sessions)
          => (/\ deleter'[d].pc = "done"
              /\ UNCHANGED <<active_sessions, is_active, websocket, wsClosed,
                             closeCalls>>)]_vars

\* two DELETEs of the same session, one after the other, both answered
\* without error; the session's connection was closed exactly once
C6_Witness ==
    /\ deleter[1].pc = "done" /\ deleter[2].pc = "done"
    /\ deleter[1].session_id = deleter[2].session_id
    /\ deleter[1].session_id < nextSession
    /\ \E c \in Conns :
          /\ gwSession[c] = deleter[1].session_id
          /\ websocket[gwSession[c]] = c
          /\ closeCalls[c] = 1

\* C7: after an expiry pass, no session that was expired when the pass
\* started is left in the registry.
C7_ExpiredClosedByPass ==
    expiry.pc = "sleep"
    => \A s \in Range(expiry.expired_sessions) : s \notin active_sessions

\* C8: whenever the expiry task deactivates a session, that session's last
\* activity is older than the timeout at that moment.
C8_ExpiryClosesOnlyExpired ==
    [][\A s \in SessionIds :
          (expiry' # expiry /\ is_active[s] /\ ~is_active'[s]) => is_expired(s)]_vars

\* C9: an unparseable frame on an open connection is answered with exactly
\* one error frame, the connection stays open and no session state changes.
C9_UnparseableFrame ==
    [][\A c \in Conns, kind \in {"badjson", "notobject"} :
          RecvUnparseable(c, kind)
          => (/\ Grew(c)
              /\ SubSeq(sent'[c], 1, Len(sent[c])) = sent[c]
              /\ Last(sent'[c]).type = "error"
              /\ \A d \in Conns \ {c} : sent'[d] = sent[d]
              /\ gw'[c] = "Open" /\ ~wsClosed'[c]
              /\ UNCHANGED <<active_sessions, sessVars>>)]_vars

\* a connection that is still open after an unparseable frame, on a session
\* that holds a chunk
C9_Witness ==
    \E c \in Conns :
        /\ CanSend(c)
        /\ Last(sent[c]).message = "Invalid JSON format"
        /\ processing_queue[gwSession[c]] # <<>>

\* refused with an error frame, no queue or buffer touched
Rejected(c) ==
    /\ Grew(c)
    /\ Last(sent'[c]).type = "error"
    /\ UNCHANGED <<audio_buffer, processing_queue, response_queue>>

\* C10: a text_request whose text is empty or whitespace and an audio_chunk
\* whose payload is empty are each rejected with an error frame, and the
\* inbound queue, outbound queue and buffer stay as they are.
C10_EmptyInputRejected ==
    [][\A c \in Conns :
          /\ \A t \in TextStrings :
                (RecvTextRequest(c, t) /\ strip(t) = <<>>) => Rejected(c)
          /\ \A h \in HexStrings :
                (RecvAudioChunk(c, h) /\ fromhex(h) = 0) => Rejected(c)]_vars

\* C11: every chunk marked processed has a result that is not None, also
\* when its transcription failed or could not be run.
C11_ProcessedHasResult ==
    \A s \in SessionIds : \A i \in DOMAIN audio_buffer[s].chunks :
        audio_buffer[s].chunks[i].processed
        => chunk_result[audio_buffer[s].chunks[i].chunk_id] \in {"text", "empty"}

\* C12: a text_request that arrives while the TTS engine is not initialized
\* is answered with an error frame; it is not put on the outbound queue and
\* gets no tts_queued frame.
C12_UnavailableReportedNotQueued ==
    [][\A c \in Conns, t \in TextStrings :
          (RecvTextRequest(c, t) /\ ~tts_initialized)
          => (/\ Grew(c)
              /\ Last(sent'[c]).type = "error"
              /\ UNCHANGED response_queue)]_vars

\* C13: no two open gateway connections serve the same session.
C13_OneLiveConnection ==
    \A c, d \in Conns :
        (c # d /\ CanSend(c) /\ CanSend(d)) => gwSession[c] # gwSession[d]

\* a frame the protocol refuses arrives on connection c
ProtocolError(c) ==
    \/ \E kind \in {"badjson", "notobject"} : RecvUnparseable(c, kind)
    \/ RecvUnknownType(c, <<"c">>)
    \/ \E k \in Commands \ {"ping", "stats", "reset"} : RecvControl(c, k)
    \/ \E h \in HexStrings : RecvAudioChunk(c, h) /\ AudioChunkRefused(c, h)
    \/ \E t \in TextStrings : RecvTextRequest(c, t) /\ TextRequestRefused(c, t)

\* C14: a frame the protocol refuses (malformed, unknown type, unknown control
\* command, empty input, closed session) is answered with an error frame and
\* leaves the connection open; a connection leaves Open only by a disconnect.
C14_ProtocolErrorsKeepOpen ==
    [][\A c \in Conns :
          /\ (sent'[c] # sent[c] /\ ProtocolError(c))
             => (/\ Grew(c)
                 /\ Last(sent'[c]).type = "error"
                 /\ gw'[c] = "Open" /\ ~wsClosed'[c])
          /\ (gw[c] = "Open" /\ gw'[c] # "Open") => GwDisconnect(c)]_vars

\* a connection that is still open after the error frame for an audio chunk
\* naming a session that was closed
C14_Witness ==
    \E c \in Conns :
        /\ CanSend(c)
        /\ gwSession[c] < nextSession /\ gwSession[c] \notin active_sessions
        /\ Last(sent[c]).message = "Audio chunk processing error: Session not found"

\* the chunks waiting on some inbound queue, and the workers that hold a chunk
QueuedChunks == UNION {Range(processing_queue[s]) : s \in SessionIds}
Holding(w) == tworker[w].pc \in {"transcribing", "sending"}

\* no chunk is held by two workers, a held chunk is on no queue, and a chunk
\* that has its result is neither queued nor with the collaborator
SingleOwner ==
    /\ \A v, w \in Workers :
          (v # w /\ Holding(v) /\ Holding(w)) => tworker[v].item # tworker[w].item
    /\ \A w \in Workers : Holding(w) => tworker[w].item \notin QueuedChunks
    /\ \A id \in ChunkIds :
          chunk_result[id] # "unset"
          => (/\ id \notin QueuedChunks
              /\ \A w \in Workers :
                    tworker[w].pc = "transcribing" => tworker[w].item # id)

\* a chunk enters a queue only when it is accepted, under a fresh id
NeverRequeued ==
    \A s \in SessionIds :
        \A id \in Range(processing_queue'[s]) \ Range(processing_queue[s]) :
            id = nextChunk /\ nextChunk' = nextChunk + 1

\* C15: each accepted chunk goes to the transcription collaborator at most
\* once, owned by one worker; a chunk whose transcription failed is marked
\* processed and is never queued again.
C15_TranscribedAtMostOnce ==
    []SingleOwner /\ [][NeverRequeued]_vars

\* the first chunk's transcription failed and it is marked processed, while a
\* worker holds the second chunk
C15_Witness ==
    /\ chunk_result[1] = "empty"
    /\ \E s \in SessionIds : \E i \in DOMAIN audio_buffer[s].chunks :
          audio_buffer[s].chunks[i].chunk_id = 1 /\ audio_buffer[s].chunks[i].processed
    /\ \E w \in Workers : tworker[w].pc = "transcribing" /\ tworker[w].item = 2

\* the requests waiting on a session's outbound queue
QueuedRequests(s) == Range(response_queue[s])

\* no request is held by two synthesis workers, a held request is on no queue
\* and no request has two tts_response entries
SpeechSingleOwner ==
    /\ \A v, w \in Workers :
          (v # w /\ sworker[v].pc \in {"synthesizing", "sending"}
                 /\ sworker[w].pc \in {"synthesizing", "sending"})
          => sworker[v].item # sworker[w].item
    /\ \A w \in Workers, s \in SessionIds :
          sworker[w].pc \in {"synthesizing", "sending"}
          => sworker[w].item \notin QueuedRequests(s)
    /\ \A s \in SessionIds, r \in RequestIds :
          Len(SelectSeq(conversation_history[s],
                        LAMBDA e : e.type = "tts_response" /\ e.ref = r)) <= 1

\* C16: a speech request is never consumed by two workers, and a request
\* queued on a session is eventually taken by a worker unless the session is
\* closed.
C16_RequestConsumedOnce ==
    /\ []SpeechSingleOwner
    /\ \A s \in SessionIds, r \in RequestIds :
          (r \in QueuedRequests(s)) ~> (r \notin QueuedRequests(s) \/ ~is_active[s])

\* within a pass a worker has every session before it at most once
PassVisitsOnce ==
    \A w \in Workers :
        /\ \A i, j \in DOMAIN tworker[w].todo :
              i # j => tworker[w].todo[i] # tworker[w].todo[j]
        /\ tworker[w].pc # "sleep" => tworker[w].session \notin Range(tworker[w].todo)

\* a worker that has served a session goes on to another session or ends its pass
MovesOn ==
    \A w \in Workers :
        (Holding(w) /\ tworker'[w].pc = "get")
        => tworker'[w].session # tworker[w].session

\* C17: in one pass a worker takes at most one chunk from each session, and
\* every chunk queued on a session is eventually transcribed unless the
\* session is closed.
C17_NoStarvation ==
    /\ []PassVisitsOnce
    /\ [][MovesOn]_vars
    /\ \A s \in SessionIds, id \in ChunkIds :
          (id \in Range(processing_queue[s]))
          ~> (chunk_result[id] # "unset" \/ ~is_active[s])

\* a chunk of the second session has its result while the first session,
\* already served once, still has chunks waiting
C17_Witness ==
    /\ processing_queue[1] # <<>>
    /\ \E i \in DOMAIN audio_buffer[1].chunks : audio_buffer[1].chunks[i].processed
    /\ \E i \in DOMAIN audio_buffer[2].chunks :
          chunk_result[audio_buffer[2].chunks[i].chunk_id] # "unset"

\* C18: attaching to a session that is not registered fails and changes no
\* session state; otherwise the connection becomes the session's connection
\* and last_activity is set to the current time, nothing else changes.
C18_AttachConnection ==
    [][\A c \in Conns :
          GwAttach(c)
          => IF gwSession[c] \notin active_sessions
             THEN /\ gw'[c] = "Closed"
                  /\ UNCHANGED <<active_sessions, sessVars, sent>>
             ELSE /\ gw'[c] = "Open"
                  /\ websocket'[gwSession[c]] = c
                  /\ last_activity'[gwSession[c]] = now
                  /\ \A s \in SessionIds \ {gwSession[c]} :
                        websocket'[s] = websocket[s] /\ last_activity'[s] = last_activity[s]
                  /\ UNCHANGED <<active_sessions, is_active, audio_buffer,
                                 processing_queue, response_queue,
                                 conversation_history>>]_vars

\* one attach failed on a session that is not registered, another bound its
\* connection at a later time than the session's creation
C18_Witness ==
    \E c, d \in Conns :
        /\ gw[c] = "Closed" /\ sent[c] = <<>> /\ gwSession[c] \notin active_sessions
        /\ gw[d] = "Open" /\ gwSession[d] \in active_sessions
        /\ websocket[gwSession[d]] = d
        /\ last_activity[gwSession[d]] > 0

\* C19: when a connection ends, its session's websocket is cleared and
\* nothing else of the session changes: it stays registered and active as it
\* was, with the same buffer, queues, history and last_activity, so that a
\* later attach finds it.
C19_DetachKeepsSession ==
    [][\A c \in Conns :
          GwDisconnect(c)
          => (/\ gwSession[c] \in active_sessions => websocket'[gwSession[c]] = None
              /\ \A s \in SessionIds \ {gwSession[c]} : websocket'[s] = websocket[s]
              /\ UNCHANGED <<active_sessions, is_active, last_activity, audio_buffer,
                             processing_queue, response_queue,
                             conversation_history>>)]_vars

\* a session that holds audio, whose first connection ended and which a later
\* connection has attached to
C19_Witness ==
    \E c, d \in Conns :
        /\ c # d /\ gwSession[c] = gwSession[d]
        /\ gw[c] = "Closed" /\ sent[c] # <<>>
        /\ gw[d] = "Open" /\ websocket[gwSession[d]] = d
        /\ gwSession[d] \in active_sessions /\ is_active[gwSession[d]]
        /\ processing_queue[gwSession[d]] # <<>>

\* a close_session call of a DELETE request that found the session ends
\* without error in this step
CloseCompletes(d) ==
    /\ deleter[d].pc # "done" /\ deleter'[d].pc = "done"
    /\ deleter'[d].session_id \in active_sessions

\* C20: when a close_session call completes, the session is inactive, not
\* registered (its statistics are not found) and its connection is closed;
\* from then on it stays unregistered and audio_chunk and text_request frames
\* naming it are refused with an error frame.
C20_ClosedSessionIsGone ==
    [][/\ \A d \in Deleters :
             CloseCompletes(d)
             => \A s \in SessionIds :
                   s = deleter'[d].session_id
                   => (/\ ~is_active'[s]
                       /\ s \notin active_sessions'
                       /\ get_session_stats(s)' = "none"
                       /\ \A c \in Conns :
                             websocket'[s] = c => ~(gw'[c] = "Open" /\ ~wsClosed'[c]))
       /\ \A s \in SessionIds :
             (s < nextSession /\ s \notin active_sessions) => s \notin active_sessions'
       /\ \A c \in Conns :
             (/\ sent'[c] # sent[c]
              /\ gwSession[c] < nextSession /\ gwSession[c] \notin active_sessions
              /\ \/ \E h \in HexStrings : RecvAudioChunk(c, h)
                 \/ \E t \in TextStrings : RecvTextRequest(c, t))
             => Rejected(c)]_vars

\* the steps a gateway connection may take
GatewayStep(c) ==
    \/ gw[c] = "Idle" /\ gw'[c] = "Connecting"
    \/ /\ gw[c] = "Connecting" /\ gw'[c] = "Open"
       /\ gwSession[c] \in active_sessions
       /\ websocket'[gwSession[c]] = c
       /\ sent'[c] = Append(sent[c], Frame("connection_established", None, 0))
    \/ /\ gw[c] = "Connecting" /\ gw'[c] = "Closed"
       /\ gwSession[c] \notin active_sessions
    \/ /\ gw[c] = "Open" /\ gw'[c] = "Closed"
       /\ gwSession[c] \in active_sessions => websocket'[gwSession[c]] = None

\* C21: a connection moves forward only (accepted, open, closed); it opens,
\* sending connection_established, only with a successful attach; it detaches
\* when it closes; an accepted connection is eventually open or closed and a
\* connection whose socket is closed eventually reaches Closed.
C21_GatewayLifecycle ==
    /\ [][\A c \in Conns : gw'[c] # gw[c] => GatewayStep(c)]_vars
    /\ \A c \in Conns :
          /\ (gw[c] = "Connecting") ~> (gw[c] \in {"Open", "Closed"})
          /\ (gw[c] = "Open" /\ wsClosed[c]) ~> (gw[c] = "Closed")

\* a connection that was open, had its socket closed by a DELETE and has
\* reached Closed, next to one whose attach failed
C21_Witness ==
    \E c, d \in Conns :
        /\ gw[c] = "Closed" /\ wsClosed[c] /\ sent[c] # <<>>
        /\ gw[d] = "Closed" /\ sent[d] = <<>>

\* connection c was sent the acknowledgment of chunk id
Acknowledged(c, id) ==
    \E i \in DOMAIN sent[c] : sent[c][i].type = "chunk_received" /\ sent[c][i].ref = id

\* some connection was sent the transcription frame of chunk id
TranscriptionSent(id) ==
    \E c \in Conns : \E i \in DOMAIN sent[c] :
        sent[c][i].type = "transcription" /\ sent[c][i].ref = id

\* on one connection the acknowledgment of a chunk comes before its transcription
AckFirst ==
    \A c \in Conns : \A i, j \in DOMAIN sent[c] :
        (/\ sent[c][i].type = "chunk_received" /\ sent[c][j].type = "transcription"
         /\ sent[c][i].ref = sent[c][j].ref) => i < j

\* the session of connection c is active and c is its open, bound connection
ActiveAndConnected(c) ==
    /\ gwSession[c] \in active_sessions
    /\ is_active[gwSession[c]]
    /\ websocket[gwSession[c]] = c
    /\ CanSend(c)

\* C22: the transcription frame of a chunk is sent only after its
\* chunk_received acknowledgment, and every acknowledged chunk eventually has
\* its transcription frame sent unless the session stops being active and
\* connected.
C22_AckThenTranscription ==
    /\ [](\A id \in ChunkIds :
            TranscriptionSent(id) => \E c \in Conns : Acknowledged(c, id))
    /\ []AckFirst
    /\ \A c \in Conns, id \in ChunkIds :
          Acknowledged(c, id) ~> (TranscriptionSent(id) \/ ~ActiveAndConnected(c))

\* the places (connection, index) of the audio_response frames of request r
AudioFrames(r) ==
    {p \in Conns \X (1..(MaxSent + MaxRequests + 2)) :
        /\ p[2] \in DOMAIN sent[p[1]]
        /\ sent[p[1]][p[2]].type = "audio_response"
        /\ sent[p[1]][p[2]].ref = r}

\* an audio_response frame has a size, is the only one of its request and
\* follows the tts_queued frame of that request
AudioFramesInOrder ==
    \A r \in RequestIds :
        /\ Cardinality(AudioFrames(r)) <= 1
        /\ \A p \in AudioFrames(r) :
              /\ sent[p[1]][p[2]].size > 0
              /\ \E c \in Conns : \E i \in DOMAIN sent[c] :
                    /\ sent[c][i].type = "tts_queued" /\ sent[c][i].ref = r
                    /\ c = p[1] => i < p[2]

\* the handler that accepts a request sends its tts_queued frame
QueuedAtOnce ==
    nextRequest' # nextRequest
    => \E c \in Conns : sent'[c] = Append(sent[c], Frame("tts_queued", nextRequest, 0))

\* a synthesis that gave audio for a session with a usable connection sends
\* the frame of its request
SuccessIsSent ==
    \A w \in Workers :
        LET s == sworker[w].session
            r == sworker[w].item IN
        (/\ sworker[w].pc = "synthesizing" /\ sworker'[w].pc # "synthesizing"
         /\ \/ sworker'[w].pc = "sending"
            \/ /\ Len(conversation_history'[s]) > Len(conversation_history[s])
               /\ Last(conversation_history'[s]).size > 0
         /\ is_active[s] /\ websocket[s] # None /\ CanSend(websocket[s]))
        => /\ AudioFrames(r) = {}
           /\ Cardinality(AudioFrames(r)') = 1
           /\ sent'[websocket[s]] =
                  Append(sent[websocket[s]], Frame("audio_response", r, 1))

\* C23: an accepted text_request gets tts_queued in the step that accepts
\* it, and a successful synthesis for an active, connected session sends
\* exactly one audio_response frame of non-zero size, after tts_queued.
C23_QueuedThenAudio ==
    /\ []AudioFramesInOrder
    /\ [][QueuedAtOnce]_vars
    /\ [][SuccessIsSent]_vars

\* a connection has been sent tts_queued and then the audio_response
C23_Witness ==
    \E c \in Conns, r \in RequestIds : \E i, j \in DOMAIN sent[c] :
        /\ i < j
        /\ sent[c][i].type = "tts_queued" /\ sent[c][i].ref = r
        /\ sent[c][j].type = "audio_response" /\ sent[c][j].ref = r

\* the requests whose synthesis gave no audio: their history entry has size 0
FailedRequests(s) ==
    {conversation_history[s][i].ref : i \in
        {k \in DOMAIN conversation_history[s] :
            /\ conversation_history[s][k].type = "tts_response"
            /\ conversation_history[s][k].size = 0}}

\* a failed request has no audio_response frame, is on no queue and with no worker
FailedIsDropped ==
    \A s \in SessionIds : \A r \in FailedRequests(s) :
        /\ AudioFrames(r) = {}
        /\ \A q \in SessionIds : r \notin Range(response_queue[q])
        /\ \A w \in Workers :
              sworker[w].pc \in {"synthesizing", "sending"} => sworker[w].item # r

\* the step in which a synthesis fails sends nothing and queues nothing
FailureSendsNothing ==
    \A w \in Workers, s \in SessionIds :
        (/\ sworker[w].pc = "synthesizing" /\ sworker'[w].pc # "synthesizing"
         /\ s = sworker[w].session
         /\ sworker[w].item \in FailedRequests(s)')
        => sent' = sent /\ response_queue' = response_queue

\* C24: a request whose synthesis failed gets no audio_response frame and is
\* neither put back on a queue nor taken up again by a worker.
C24_FailedSynthesisDropped ==
    /\ []FailedIsDropped
    /\ [][FailureSendsNothing]_vars

\* a synthesis failed for a session whose connection is open and bound
C24_Witness ==
    \E s \in SessionIds :
        /\ FailedRequests(s) # {}
        /\ is_active[s]
        /\ websocket[s] # None
        /\ CanSend(websocket[s])

\* the buffer is what its operations leave: the byte count is the sum of the
\* chunk sizes and no chunk is held twice
BufferConsistent ==
    \A s \in SessionIds :
        /\ audio_buffer[s].total_size = SumSizes(audio_buffer[s].chunks)
        /\ \A i, j \in DOMAIN audio_buffer[s].chunks :
              audio_buffer[s].chunks[i].chunk_id = audio_buffer[s].chunks[j].chunk_id
              => i = j

\* a step that changes a buffer applies one whole add_chunk (cleanup
\* included) or one whole mark_processed to the buffer as it was
OneWholeOperation ==
    \A s \in active_sessions :
        audio_buffer'[s] # audio_buffer[s]
        => \/ \E size \in 0..(MaxChunkSize + 1) :
                 audio_buffer'[s] = add_chunk(audio_buffer[s], AudioChunk(nextChunk, size))
           \/ \E id \in ChunkIds :
                 audio_buffer'[s] = mark_processed(audio_buffer[s], id)

LastN(seq, n) == IF Len(seq) <= n THEN seq ELSE SubSeq(seq, Len(seq) - n + 1, Len(seq))

\* an append leaves the 50 most recent entries, the new one last
KeepsMostRecent ==
    \A s \in active_sessions :
        Len(conversation_history'[s]) > 0 /\ conversation_history'[s] # conversation_history[s]
        => conversation_history'[s] =
              LastN(Append(conversation_history[s], Last(conversation_history'[s])), 50)

\* C26: a history never holds more than 50 entries, and an append to a full
\* history drops the oldest entry: the history is the most recent entries
\* in the order in which they were added.
C26_HistoryCapped ==
    /\ [](\A s \in SessionIds : Len(conversation_history[s]) <= 50)
    /\ [][KeepsMostRecent]_vars

\* a full history whose first entries have been dropped
C26_Witness ==
    \E s \in SessionIds :
        /\ Len(conversation_history[s]) = 50
        /\ conversation_history[s][1].ref = 3
        /\ conversation_history[s][50].ref = 52

\* C27: no error frame carries a text with a character that sanitization
\* rewrites: every echoed text has been through sanitize_html.
C27_EchoSanitized ==
    \A c \in Conns : \A i \in DOMAIN sent[c] :
        sent[c][i].type = "error" => "m" \notin Range(sent[c][i].echo)

\* the frame that acknowledges a control command
ControlAck(command) ==
    CASE command = "ping"  -> "pong"
      [] command = "stats" -> "stats_response"
      [] command = "reset" -> "reset_complete"

\* C28: reset, ping and stats are each acknowledged with their frame, and the
\* step that sends such a frame leaves every session as it was: buffer,
\* inbound queue, outbound queue, history and last_activity.
C28_ControlChangesNothing ==
    [][\A c \in Conns :
          /\ \A k \in {"ping", "stats", "reset"} :
                RecvControl(c, k)
                => Grew(c) /\ Last(sent'[c]).type = ControlAck(k)
          /\ (Grew(c) /\ Last(sent'[c]).type \in {"pong", "stats_response", "reset_complete"})
             => UNCHANGED <<active_sessions, is_active, websocket, last_activity,
                            audio_buffer, processing_queue, response_queue,
                            conversation_history>>]_vars

\* a reset was acknowledged on a session that still holds its queued chunk
C28_Witness ==
    \E c \in Conns :
        /\ sent[c] # <<>>
        /\ Last(sent[c]).type = "reset_complete"
        /\ gwSession[c] \in active_sessions
        /\ processing_queue[gwSession[c]] # <<>>
        /\ audio_buffer[gwSession[c]].chunks # <<>>

\* session s as create_session leaves a new session
FreshSession(s) ==
    /\ is_active'[s]
    /\ audio_buffer'[s].chunks = <<>> /\ audio_buffer'[s].total_size = 0
    /\ processing_queue'[s] = <<>> /\ response_queue'[s] = <<>>
    /\ websocket'[s] = None
    /\ conversation_history'[s] = <<>>

\* session s is as it was
SessionUnchanged(s) ==
    /\ s \in active_sessions'
    /\ UNCHANGED <<is_active[s], websocket[s], last_activity[s], audio_buffer[s],
                   processing_queue[s], response_queue[s], conversation_history[s]>>

\* C29: create_session registers exactly one session, under an ID that no
\* registered session has; the new session is active, with an empty buffer,
\* empty queues, no connection and an empty history, and every session that
\* was registered stays as it was.
C29_CreateSessionFresh ==
    [][nextSession' # nextSession
       => \E s \in SessionIds :
             /\ s \notin active_sessions
             /\ active_sessions' = active_sessions \cup {s}
             /\ FreshSession(s)
             /\ \A q \in active_sessions : SessionUnchanged(q)]_vars

\* a second session was created next to one that has a connection and a
\* queued chunk
C29_Witness ==
    /\ active_sessions = {1, 2}
    /\ websocket[1] # None
    /\ processing_queue[1] # <<>>
    /\ audio_buffer[2] = EmptyBuffer

\* the bytes of the chunks before position i of session s's buffer that the
\* step removes
EvictedBefore(s, i) ==
    SumSizes(SelectSeq(SubSeq(audio_buffer[s].chunks, 1, i - 1),
                       LAMBDA ch : ch.chunk_id \notin ChunkIdsOf(audio_buffer'[s])))

\* C30: an add_chunk evicts processed chunks oldest first and only while room
\* is lacking: a chunk is evicted only if, with the chunks evicted before it
\* gone, total_size plus the incoming size still exceeds max_size.
C30_EvictionStopsWhenRoom ==
    [][\A s \in SessionIds : \A i \in DOMAIN audio_buffer[s].chunks :
          (/\ nextChunk' # nextChunk
           /\ audio_buffer[s].chunks[i].chunk_id \notin ChunkIdsOf(audio_buffer'[s]))
          => (/\ \A j \in 1..(i - 1) :
                    audio_buffer[s].chunks[j].processed
                    => audio_buffer[s].chunks[j].chunk_id
                          \notin ChunkIdsOf(audio_buffer'[s])
              /\ audio_buffer[s].total_size - EvictedBefore(s, i)
                    + Last(audio_buffer'[s].chunks).size > max_size)]_vars

\* the transcription events of chunk id in the history of session s
TranscriptionEvents(h, id) ==
    {i \in DOMAIN h : h[i].type = "transcription" /\ h[i].ref = id}

\* the step in which the collaborator call of worker w returns for a session
\* that is active: the chunk is marked, and a frame goes out exactly when a
\* usable connection is bound
CompletionMarksAndSends(w) ==
    \A s \in active_sessions :
        (/\ tworker[w].pc = "transcribing" /\ tworker'[w].pc # "transcribing"
         /\ tworker[w].session = s /\ is_active[s])
        => (/\ \A i \in DOMAIN audio_buffer'[s].chunks :
                  audio_buffer'[s].chunks[i].chunk_id = tworker[w].item
                  => audio_buffer'[s].chunks[i].processed
            /\ (websocket[s] # None /\ CanSend(websocket[s]))
               <=> (\E c \in Conns :
                       /\ Grew(c)
                       /\ Last(sent'[c]) = Frame("transcription", tworker[w].item, 0)))

\* the step in which worker w lets go of a chunk of a session that is still
\* active: the history has exactly one event of that chunk
ReleaseLeavesOneEvent(w) ==
    \A s \in active_sessions :
        (/\ Holding(w) /\ tworker'[w].pc \notin {"transcribing", "sending"}
         /\ tworker[w].session = s /\ is_active[s])
        => Cardinality(TranscriptionEvents(conversation_history'[s], tworker[w].item)) = 1

\* C31: when the transcription of a chunk completes for an active session
\* the chunk is marked processed, exactly one transcription event of it is
\* in the history, and a transcription frame is sent if and only if a
\* connection is attached.
C31_CompletionEffects ==
    [][\A w \in Workers : CompletionMarksAndSends(w) /\ ReleaseLeavesOneEvent(w)]_vars

\* what mark_processed(chunk_id) gives on buffer buf: the same chunks and
\* byte count, the flag set on the chunk with that ID and every other chunk
\* as it was; the buffer itself when no chunk has that ID
MarksOnly(buf, chunk_id) ==
    LET r == mark_processed(buf, chunk_id) IN
    /\ r.total_size = buf.total_size
    /\ Len(r.chunks) = Len(buf.chunks)
    /\ \A i \in DOMAIN buf.chunks :
          IF buf.chunks[i].chunk_id = chunk_id
          THEN r.chunks[i] = [buf.chunks[i] EXCEPT !.processed = TRUE]
          ELSE r.chunks[i] = buf.chunks[i]
    /\ chunk_id \notin ChunkIdsOf(buf) => r = buf

\* a step that adds no chunk changes at most the flag of one chunk
OneFlagPerStep ==
    \A s \in active_sessions :
        (nextChunk' = nextChunk /\ audio_buffer'[s] # audio_buffer[s])
        => \E k \in DOMAIN audio_buffer[s].chunks :
              /\ ~audio_buffer[s].chunks[k].processed
              /\ audio_buffer'[s] =
                    [audio_buffer[s] EXCEPT !.chunks[k].processed = TRUE]

\* C32: mark_processed sets the flag of the chunk with the given ID and of
\* no other chunk, and for an ID that no chunk of the buffer has (a chunk
\* already reclaimed) it leaves the chunks and total_size as they are.
C32_MarkProcessedOnlyThatChunk ==
    /\ [](\A s \in SessionIds, id \in ChunkIds : MarksOnly(audio_buffer[s], id))
    /\ [][OneFlagPerStep]_vars

\* a buffer with a processed chunk before an unprocessed one, after an
\* earlier chunk was reclaimed
C32_Witness ==
    \E s \in SessionIds :
        LET chunks == audio_buffer[s].chunks IN
        /\ Len(chunks) = 2
        /\ chunks[1].processed /\ ~chunks[2].processed
        /\ \E e \in ChunkIds : e < chunks[1].chunk_id /\ e \notin ChunkIdsOf(audio_buffer[s])

\* C33: close_session calls on one session, overlapping or not, never end
\* in an error and never call close() on a connection more than once.
C33_OverlappingCloseSafe ==
    /\ \A d \in Deleters : deleter[d].pc # "failed"
    /\ \A c \in Conns : closeCalls[c] <= 1

\* C34: when a connection ends, its detach clears the session's binding only
\* if the binding is that connection: a newer connection bound to the same
\* session stays bound.
C34_DetachClearsOwnOnly ==
    [][\A c \in Conns : \A s \in active_sessions :
          (/\ gw[c] = "Open" /\ gw'[c] = "Closed"
           /\ gwSession[c] = s
           /\ websocket[s] # None /\ websocket[s] # c)
          => websocket'[s] = websocket[s]]_vars

\* C35: every request that get_streaming_service answers is handed a
\* service whose initialize() has completed, and initialize() is called at
\* most once.
C35_ServiceInitializedOnce ==
    /\ \A k \in Callers : caller[k].pc = "returned" => caller[k].initialized
    /\ initializeCalls <= 1

\* C36: the total_size of every buffer is the sum of the sizes of the chunks
\* it holds.
C36_TotalIsSum ==
    \A s \in SessionIds :
        audio_buffer[s].total_size = SumSizes(audio_buffer[s].chunks)

\* the only session's buffer holds chunks after an add_chunk reclaimed others
C36_Witness ==
    /\ nextSession = 2
    /\ audio_buffer[1].chunks # <<>>
    /\ audio_buffer[1].total_size > 0
    /\ Len(audio_buffer[1].chunks) < nextChunk - 1

\* a chunk on an inbound queue is in the buffer of that session, unprocessed,
\* and is on the queues once
QueuedInBuffer ==
    \A s \in SessionIds :
        /\ \A id \in Range(processing_queue[s]) :
              \E i \in DOMAIN audio_buffer[s].chunks :
                  /\ audio_buffer[s].chunks[i].chunk_id = id
                  /\ ~audio_buffer[s].chunks[i].processed
        /\ \A i, j \in DOMAIN processing_queue[s] :
              processing_queue[s][i] = processing_queue[s][j] => i = j
        /\ \A q \in SessionIds \ {s} :
              Range(processing_queue[s]) \cap Range(processing_queue[q]) = {}

\* the step that acknowledges a chunk has put it, under a new ID, at the end
\* of the queue of the connection's session; nothing else lengthens a queue
AckedIsQueued ==
    /\ \A c \in Conns :
          (Grew(c) /\ Last(sent'[c]).type = "chunk_received")
          => (/\ Last(sent'[c]).ref = nextChunk
              /\ nextChunk' = nextChunk + 1
              /\ processing_queue'[gwSession[c]] =
                    Append(processing_queue[gwSession[c]], nextChunk))
    /\ \A s \in SessionIds :
          Len(processing_queue'[s]) > Len(processing_queue[s])
          => (/\ processing_queue'[s] = Append(processing_queue[s], nextChunk)
              /\ nextChunk' = nextChunk + 1)

\* C37: every chunk waiting on an inbound queue is in the buffer of its
\* session with processed false, and every chunk acknowledged with
\* chunk_received was put on the inbound queue exactly once.
C37_QueuedChunksHeld ==
    /\ []QueuedInBuffer
    /\ [][AckedIsQueued]_vars

\* an acknowledged chunk waits on the queue of a session whose buffer has
\* already reclaimed an earlier chunk
C37_Witness ==
    \E c \in Conns, id \in ChunkIds :
        /\ Acknowledged(c, id)
        /\ id \in Range(processing_queue[gwSession[c]])
        /\ \E e \in ChunkIds :
              e < id /\ Acknowledged(c, e) /\ e \notin ChunkIdsOf(audio_buffer[gwSession[c]])

\* what may change the last_activity of a session that exists: the attach of
\* a connection, an audio chunk that was queued, a text request that was queued
ActivityCause(s) ==
    \/ \E c \in Conns :
          gwSession[c] = s /\ gw[c] = "Connecting" /\ gw'[c] = "Open"
    \/ \E c \in Conns :
          /\ gwSession[c] = s /\ Grew(c)
          /\ Last(sent'[c]).type = "chunk_received"
          /\ Len(processing_queue'[s]) = Len(processing_queue[s]) + 1
    \/ \E c \in Conns :
          /\ gwSession[c] = s /\ Grew(c)
          /\ Last(sent'[c]).type = "tts_queued"
          /\ Len(response_queue'[s]) = Len(response_queue[s]) + 1

\* a scan of the expiry task lists every registered session whose last
\* activity is older than the timeout, connected or not, and closes the first
ScanTakesExpired ==
    (expiry.pc = "sleep" /\ expiry' # expiry)
    => /\ \A s \in active_sessions :
             is_expired(s) => s \in Range(expiry'.expired_sessions)
       /\ expiry'.expired_sessions # <<>> => ~is_active'[Head(expiry'.expired_sessions)]

\* C38: last_activity of a session is changed only by the attach of a
\* connection, an accepted audio chunk and an accepted text request; control
\* frames, rejected frames, the detach and the workers leave it unchanged, so
\* a connected session that sends only control frames is taken by the expiry
\* scan.
C38_ActivityOnlyByAttachAndRequests ==
    /\ [][\A s \in SessionIds :
            (s < nextSession /\ last_activity'[s] # last_activity[s])
            => ActivityCause(s)]_vars
    /\ [][ScanTakesExpired]_vars

\* a connection that was answered pong and nothing else has been closed with
\* its session by the expiry task
C38_Witness ==
    \E c \in Conns :
        /\ Len(sent[c]) = 2
        /\ sent[c][2].type = "pong"
        /\ closeCalls[c] = 1
        /\ ~is_active[gwSession[c]]
        /\ last_activity[gwSession[c]] < now

\* every worker task has a next step to take
WorkersRunnable ==
    \A w \in Workers :
        /\ ENABLED (TranscriptionStep(w) \/ TwSent(w))
        /\ ENABLED SynthesisStep(w)

\* a worker that is done with an item, whatever the outcome, waits on the queue
\* of the next active session of its pass or sleeps until the next pass
GoesOnAfterItem ==
    \A w \in Workers :
        /\ (tworker[w].pc \in {"transcribing", "sending"} /\ tworker'[w].pc # "sending"
            /\ tworker'[w] # tworker[w])
           => tworker'[w] = NextVisit(tworker[w].todo)
        /\ (sworker[w].pc \in {"synthesizing", "sending"} /\ sworker'[w].pc # "sending"
            /\ sworker'[w] # sworker[w])
           => sworker'[w] = NextVisit(sworker[w].todo)

\* C39: a transcription or synthesis worker never terminates on its own: a
\* failure while handling the item of one session (collaborator error, send
\* error) is caught and the worker goes on to the remaining sessions of the
\* pass and to further passes.
C39_WorkersNeverTerminate ==
    /\ []WorkersRunnable
    /\ [][GoesOnAfterItem]_vars
    /\ \A w \in Workers : []<>(tworker[w].pc = "sleep") /\ []<>(sworker[w].pc = "sleep")

\* after a chunk whose processing failed and a request whose synthesis failed,
\* a worker of each kind waits on the queue of the second session
C39_Witness ==
    /\ \E id \in ChunkIds : chunk_result[id] = "none"
    /\ \E w \in Workers : tworker[w].pc = "get" /\ tworker[w].session = 2
    /\ \E w \in Workers : sworker[w].pc = "get" /\ sworker[w].session = 2
    /\ \E e \in DOMAIN conversation_history[1] :
          conversation_history[1][e].type = "tts_response"
          /\ conversation_history[1][e].size = 0

\* the state in which cleanup() returns: the registry is empty, every session
\* created so far is inactive and the socket bound to it has been closed, and
\* every worker task and the expiry task are cancelled
CleanedUp ==
    /\ active_sessions = {}
    /\ \A s \in SessionIds :
          s < nextSession
          => /\ ~is_active[s]
             /\ websocket[s] # None => closeCalls[websocket[s]] >= 1
    /\ \A w \in Workers : tworker[w].pc = "cancelled" /\ sworker[w].pc = "cancelled"
    /\ expiry.pc = "cancelled"

\* once cleanup() has returned, nothing is taken from a queue
NoDispatch ==
    \A s \in SessionIds :
        /\ Len(processing_queue'[s]) >= Len(processing_queue[s])
        /\ Len(response_queue'[s]) >= Len(response_queue[s])

\* C40: when cleanup() completes the registry is empty, every session that
\* was registered is inactive and had its connection closed, and the worker
\* and expiry tasks have been cancelled, so that no chunk or speech request
\* is dispatched afterwards.
C40_CleanupLeavesNothing ==
    /\ [][(cleanup.pc # "done" /\ cleanup'.pc = "done") => CleanedUp']_vars
    /\ [][cleanup.pc = "done" => NoDispatch]_vars

====
